---- MODULE Spec2Model ----
(***************************************************************************)
(* SyncHiveClient (src/src/client.ts): the data facade's requests and      *)
(* ensureUser, the sign-in strategy selection of signInRedirect, and the   *)
(* callback handling of init.  The oidc-client-ts UserManager, the fetch   *)
(* primitive and the browser window are the environment: every call into   *)
(* them is a suspension point whose outcome the environment chooses.       *)
(***************************************************************************)
EXTENDS Integers, Sequences, FiniteSets, TLC

(* ------------------------------ bounds -------------------------------- *)
\* sessions the identity provider issues over one run
MaxSession == 2
\* data operations issued (each may be in flight with the others)
MaxReq == 2
\* signInRedirect calls in one run
MaxSignIn == 2
\* init calls in one run
MaxInit == 2
\* parameters in the page's location, query string and hash together
MaxParams == 2
\* lifecycle signals delivered to one subscription
MaxSignal == 1
\* calls of one subscription's unsubscribe function
MaxUnsub == 2
\* characters of a publishable key's encrypted key and environment together
MaxText == 3

(* ------------------------------ strings ------------------------------- *)
\* A JavaScript string is the sequence of its characters.
UpperChars == <<"A","B","C","D","E","F","G","H","I","J","K","L","M","N","O","P","Q","R","S","T","U","V","W","X","Y","Z">>
LowerChars == <<"a","b","c","d","e","f","g","h","i","j","k","l","m","n","o","p","q","r","s","t","u","v","w","x","y","z">>

ToLowerChar(c) ==
  IF \E i \in 1..26 : UpperChars[i] = c
    THEN LowerChars[CHOOSE i \in 1..26 : UpperChars[i] = c]
    ELSE c

\* String.prototype.toLowerCase
toLowerCase(s) == [i \in 1..Len(s) |-> ToLowerChar(s[i])]

\* String.prototype.includes
includes(s, needle) ==
  \E i \in 0..(Len(s) - Len(needle)) :
    \A j \in 1..Len(needle) : s[i + j] = needle[j]

\* messages of failures the environment (UserManager, fetch) raises
MsgPopupBlocked == <<"P","o","p","u","p"," ","b","l","o","c","k","e","d">>
MsgWindowClosed == <<"W","i","n","d","o","w"," ","c","l","o","s","e","d">>
MsgOpenReturnedNull == <<"w","i","n","d","o","w",".","o","p","e","n"," ","r","e","t","u","r","n","e","d"," ","n","u","l","l">>
MsgLoginRequired == <<"l","o","g","i","n","_","r","e","q","u","i","r","e","d">>
MsgNoState == <<"N","o"," ","s","t","a","t","e"," ","i","n"," ","r","e","s","p","o","n","s","e">>
MsgStateNotFound == <<"S","t","a","t","e"," ","n","o","t"," ","f","o","u","n","d"," ","i","n"," ","s","t","o","r","a","g","e">>
MsgNetwork == <<"N","e","t","w","o","r","k"," ","d","o","w","n">>
TextPopup == <<"p","o","p","u","p">>

\* messages of the errors the client itself creates
MsgUnauthenticated == <<"U","s","e","r"," ","i","s"," ","n","o","t"," ","a","u","t","h","e","n","t","i","c","a","t","e","d","."," ","C","a","l","l"," ","s","i","g","n","I","n","R","e","d","i","r","e","c","t","(",")"," ","f","i","r","s","t",".">>
MsgRedirectFailed == <<"S","i","g","n","-","i","n"," ","r","e","d","i","r","e","c","t"," ","f","a","i","l","e","d",".">>
MsgEmbeddedLoginBlocked == <<"E","m","b","e","d","d","e","d"," ","l","o","g","i","n"," ","b","l","o","c","k","e","d"," ","b","y"," ","f","r","a","m","e"," ","p","o","l","i","c","y","."," ","P","o","p","u","p"," ","a","u","t","h"," ","f","a","i","l","e","d"," ","a","n","d"," ","t","o","p","-","l","e","v","e","l"," ","n","a","v","i","g","a","t","i","o","n"," ","i","s"," ","n","o","t"," ","a","l","l","o","w","e","d"," ","i","n"," ","t","h","i","s"," ","i","f","r","a","m","e",".">>
MsgRequestFailed == <<"R","e","q","u","e","s","t"," ","f","a","i","l","e","d">>

\* the substrings shouldFallbackFromPopup looks for
NeedlePopup == <<"p","o","p","u","p">>
NeedleWindowClosed == <<"w","i","n","d","o","w"," ","c","l","o","s","e","d">>
NeedleOpenNull == <<"w","i","n","d","o","w",".","o","p","e","n"," ","r","e","t","u","r","n","e","d"," ","n","u","l","l">>

\* the substrings isMissingCallbackStateError looks for
NeedleNoState == <<"n","o"," ","s","t","a","t","e"," ","i","n"," ","r","e","s","p","o","n","s","e">>
NeedleStateNotFound == <<"s","t","a","t","e"," ","n","o","t"," ","f","o","u","n","d"," ","i","n"," ","s","t","o","r","a","g","e">>
NeedleInvalidResponseType == <<"i","n","v","a","l","i","d"," ","r","e","s","p","o","n","s","e","_","t","y","p","e"," ","i","n"," ","s","t","a","t","e">>

\* A thrown value: an Error object with its message, or any other value
\* (here a thrown string, kept in the same field).
MkError(m) == [isError |-> TRUE, message |-> m]
MkNonError(m) == [isError |-> FALSE, message |-> m]

\* no failure
NoError == [isError |-> FALSE, message |-> <<>>]

\* what the environment may throw from an awaited call
Thrown ==
  { MkError(MsgPopupBlocked), MkError(MsgWindowClosed),
    MkError(MsgOpenReturnedNull), MkError(MsgLoginRequired),
    MkError(MsgNoState), MkNonError(TextPopup) }

\* what the callback exchange (signinCallback, signinPopupCallback) may throw
CallbackThrown ==
  { MkError(MsgNoState), MkError(MsgStateNotFound),
    MkError(NeedleInvalidResponseType),
    MkError(MsgLoginRequired), MkNonError(NeedleNoState) }

\* what getUser, signinSilent and fetchFn may throw
DataThrown == { MkError(MsgNetwork) }

(* ------------------------- URLs and parameters ------------------------ *)
\* parameter names of the locations considered, and the route of a hash
K_code == <<"c","o","d","e">>
K_state == <<"s","t","a","t","e">>
K_session_state == <<"s","e","s","s","i","o","n","_","s","t","a","t","e">>
K_error == <<"e","r","r","o","r">>
K_error_description == <<"e","r","r","o","r","_","d","e","s","c","r","i","p","t","i","o","n">>
K_id_token == <<"i","d","_","t","o","k","e","n">>
K_tab == <<"t","a","b">>
K_next == <<"n","e","x","t">>
Route == <<"/","r">>
NeedleCodeEq == <<"c","o","d","e","=">>
NeedleStateEq == <<"s","t","a","t","e","=">>

\* String.prototype.indexOf for one character (0-based, -1 when absent)
indexOf(s, c) ==
  IF \E i \in 1..Len(s) : s[i] = c
    THEN (CHOOSE i \in 1..Len(s) : s[i] = c /\ \A j \in 1..(i - 1) : s[j] # c) - 1
    ELSE -1

\* String.prototype.slice(from) and slice(0, to), 0-based
sliceFrom(s, from) == SubSeq(s, from + 1, Len(s))
sliceTo(s, to) == SubSeq(s, 1, to)

\* the pieces of `s` between the occurrences of the character `sep`
RECURSIVE Split(_, _)
Split(s, sep) ==
  LET k == indexOf(s, sep)
  IN IF k < 0 THEN <<s>>
     ELSE <<sliceTo(s, k)>> \o Split(sliceFrom(s, k + 1), sep)

\* the characters the form-urlencoded serializer escapes, with their escapes
PercentCode(c) ==
  CASE c = "/" -> <<"%","2","F">>
    [] c = "?" -> <<"%","3","F">>
    [] c = "=" -> <<"%","3","D">>
    [] c = "&" -> <<"%","2","6">>
    [] c = "#" -> <<"%","2","3">>
    [] c = "%" -> <<"%","2","5">>
    [] c = "+" -> <<"%","2","B">>
    [] c = " " -> <<"+">>
    [] OTHER -> <<c>>

EscapedChars == {"/", "?", "=", "&", "#", "%", "+"}

\* application/x-www-form-urlencoded serializing of a name or a value
RECURSIVE FormEncode(_)
FormEncode(s) ==
  IF s = <<>> THEN <<>> ELSE PercentCode(Head(s)) \o FormEncode(Tail(s))

\* application/x-www-form-urlencoded decoding: "+" is a space, %XX a byte
RECURSIVE FormDecode(_)
FormDecode(s) ==
  IF s = <<>> THEN <<>>
  ELSE IF Head(s) = "+" THEN <<" ">> \o FormDecode(Tail(s))
  ELSE IF /\ Head(s) = "%"
          /\ Len(s) >= 3
          /\ \E c \in EscapedChars : PercentCode(c) = SubSeq(s, 1, 3)
    THEN <<CHOOSE c \in EscapedChars : PercentCode(c) = SubSeq(s, 1, 3)>>
           \o FormDecode(SubSeq(s, 4, Len(s)))
  ELSE <<Head(s)>> \o FormDecode(Tail(s))

\* one "name=value" piece as a <<name, value>> pair
ParsePair(piece) ==
  LET k == indexOf(piece, "=")
  IN IF k < 0 THEN <<FormDecode(piece), <<>>>>
     ELSE <<FormDecode(sliceTo(piece, k)), FormDecode(sliceFrom(piece, k + 1))>>

NonEmptyString(s) == s # <<>>

\* new URLSearchParams(init): the list of <<name, value>> pairs
URLSearchParams(init) ==
  LET body == IF init # <<>> /\ Head(init) = "?" THEN Tail(init) ELSE init
      pieces == SelectSeq(Split(body, "&"), NonEmptyString)
  IN [i \in 1..Len(pieces) |-> ParsePair(pieces[i])]

\* URLSearchParams.prototype.has
has(params, name) == \E i \in 1..Len(params) : params[i][1] = name

\* URLSearchParams.prototype.delete for each name of a set
deleteAll(params, names) ==
  LET Keeps(pr) == pr[1] \notin names
  IN SelectSeq(params, Keeps)

\* URLSearchParams.prototype.toString
RECURSIVE paramsToString(_)
paramsToString(params) ==
  IF params = <<>> THEN <<>>
  ELSE LET first == FormEncode(params[1][1]) \o <<"=">> \o FormEncode(params[1][2])
       IN IF Len(params) = 1 THEN first
          ELSE first \o <<"&">> \o paramsToString(Tail(params))

(* ------------------------------ state --------------------------------- *)
VARIABLES
  user,        \* the session UserManager.getUser() reads: a session id, or NoUser
  expiredSet,  \* the sessions whose `expired` getter is true (never shrinks)
  issued,      \* how many sessions the identity provider has issued
  req,         \* req[r]: one data operation (list/get/create/update)
  hasWindow,   \* typeof window !== "undefined"
  frame,       \* window.self !== window.top: "same", "different" or "throws"
  si,          \* the signInRedirect call
  signIns,     \* signInRedirect calls so far
  opener,      \* window.opener: "none", "self" (the window itself) or "other"
  hasReplaceState, \* window.history.replaceState exists
  location,    \* window.location: its search and its hash
  historyLen,  \* window.history.length
  replaceCalls,\* history.replaceState calls so far
  windowClosed,\* window.close() has been called
  ini,         \* the init call
  inits,       \* init calls so far
  sub,         \* one onAuthStateChange subscription: its closure
  handlers,    \* handlers[ev]: the handlers registered for event ev
  ctor,        \* the constructor call
  call         \* a signOutRedirect or getUser call

dataVars == <<user, expiredSet, issued, req>>
signVars == <<hasWindow, frame, si, signIns>>
initVars == <<opener, hasReplaceState, location, historyLen, replaceCalls,
              windowClosed, ini, inits>>
authVars == <<sub, handlers>>
vars == <<user, expiredSet, issued, req, hasWindow, frame, si, signIns,
          opener, hasReplaceState, location, historyLen, replaceCalls,
          windowClosed, ini, inits, sub, handlers, ctor, call>>

(* ------------------------- sessions (User) ---------------------------- *)
\* getUser() resolved null
NoUser == 0
Reqs == 1..MaxReq

\* User.access_token
AccessToken(u) == <<"access_token", u>>

\* `user && !user.expired`, as ensureUser tests it (the stored user and
\* the renewed one alike)
IsValidUser_NeverValid(u, exp) == FALSE
IsValidUser(u, exp) == u # NoUser /\ u \notin exp

(* --------------------------- data requests ---------------------------- *)
OpKinds == {"list", "get", "create", "update"}

\* whether the RequestInit the operation passes to request() has a body
\* (create and update pass a method and a JSON body, list and get nothing)
HasBody(op) == op \in {"create", "update"}

\* the headers request() sets once ensureUser has returned `u`
RequestHeaders_NoToken(u, body) ==
  [Authorization |-> <<"Bearer", AccessToken(NoUser)>>,
   Accept |-> "application/json",
   ContentType |-> IF body THEN "application/json" ELSE "none"]
RequestHeaders(u, body) ==
  [Authorization |-> <<"Bearer", AccessToken(u)>>,
   Accept |-> "application/json",
   ContentType |-> IF body THEN "application/json" ELSE "none"]

NoHeaders == [Authorization |-> <<>>, Accept |-> "none", ContentType |-> "none"]

\* the error ensureUser throws after a renewal that failed with `e`
\* (the catch block ignores `e`)
RenewalFailure_Rethrown(e) == e
RenewalFailure(e) == MkError(MsgUnauthenticated)

\* a data operation that has not been called
IdleReq ==
  [pc |-> "idle",
   body |-> FALSE,          \* init.body is set
   stored |-> "unread",     \* getUser(): unread, valid, invalid (null or
                            \* expired) or threw
   renewal |-> "none",      \* signinSilent(): none, pending, valid, invalid
                            \* (null or expired) or threw
   got |-> NoUser,          \* what getUser() resolved inside ensureUser
   gotExpired |-> FALSE,    \* its `expired` as ensureUser read it
   renewals |-> 0,          \* signinSilent() calls made by this operation
   renewed |-> NoUser,      \* what signinSilent() resolved
   ensured |-> NoUser,      \* the user ensureUser returned
   ensuredExpired |-> FALSE,\* its `expired` when ensureUser returned it
   fetches |-> 0,           \* fetchFn calls made by this operation
   fetched |-> "none",      \* fetchFn(): none, ok, notOk (response.ok is
                            \* false) or threw
   headers |-> NoHeaders,   \* the headers of the fetchFn call
   error |-> NoError]

\* the operation's promise settles: what the caller sees (the outcome and
\* the failure) and the calls that were made; the locals of the finished
\* call are gone
Settle(rec, outcome, e) ==
  [IdleReq EXCEPT !.pc = outcome, !.error = e,
                  !.stored = rec.stored, !.renewal = rec.renewal,
                  !.renewals = rec.renewals, !.fetches = rec.fetches,
                  !.fetched = rec.fetched]

\* request(): ensureUser has returned `u`; the headers are set and fetchFn
\* is called
CallFetch_StoredToken(rec, u, exp) ==
  [rec EXCEPT !.pc = "fetch",
              !.ensured = u,
              !.ensuredExpired = (u \in exp),
              !.fetches = @ + 1,
              !.headers = RequestHeaders(user, rec.body)]

CallFetch(rec, u, exp) ==
  [rec EXCEPT !.pc = "fetch",
              !.ensured = u,
              !.ensuredExpired = (u \in exp),
              !.fetches = @ + 1,
              !.headers = RequestHeaders(u, rec.body)]

\* list / get / create / update: build the URL, call request(), which calls
\* ensureUser(), which calls userManager.getUser() and suspends
request(r, op) ==
  /\ req[r].pc = "idle"
  /\ \A q \in Reqs : q < r => req[q].pc # "idle"
  /\ req' = [req EXCEPT ![r] = [@ EXCEPT !.pc = "getUser", !.body = HasBody(op)]]
  /\ UNCHANGED <<user, expiredSet, issued, signVars, initVars, authVars, ctor, call>>

\* ensureUser: getUser() resolves with the stored user; a valid one is
\* returned and request() goes on to fetchFn, otherwise signinSilent() is
\* called
getUserResolves(r) ==
  /\ req[r].pc = "getUser"
  /\ LET rec == [req[r] EXCEPT
                  !.got = user, !.gotExpired = (user \in expiredSet),
                  !.stored = IF user # NoUser /\ user \notin expiredSet
                               THEN "valid" ELSE "invalid"]
     IN req' = [req EXCEPT ![r] =
                  IF IsValidUser(user, expiredSet)
                    THEN CallFetch(rec, user, expiredSet)
                    ELSE [rec EXCEPT !.pc = "signinSilent", !.renewal = "pending",
                                     !.renewals = @ + 1]]
  /\ UNCHANGED <<user, expiredSet, issued, signVars, initVars, authVars, ctor, call>>

\* ensureUser: getUser() rejects (outside the try): request() rejects with it
getUserRejects(r, e) ==
  /\ req[r].pc = "getUser"
  /\ req' = [req EXCEPT ![r] = Settle([@ EXCEPT !.stored = "threw"], "rejected", e)]
  /\ UNCHANGED <<user, expiredSet, issued, signVars, initVars, authVars, ctor, call>>

\* ensureUser: signinSilent() resolves with a new session (which the
\* UserManager has stored), already expired or not
signinSilentResolves(r, isExpired) ==
  /\ req[r].pc = "signinSilent"
  /\ issued < MaxSession
  /\ LET u == issued + 1
         exp == IF isExpired THEN expiredSet \cup {u} ELSE expiredSet
         rec == [req[r] EXCEPT !.renewed = u,
                               !.renewal = IF isExpired THEN "invalid" ELSE "valid"]
     IN /\ issued' = u
        /\ user' = u
        /\ expiredSet' = exp
        /\ req' = [req EXCEPT ![r] =
                     IF IsValidUser(u, exp)
                       THEN CallFetch(rec, u, exp)
                       ELSE Settle(rec, "rejected", MkError(MsgUnauthenticated))]
  /\ UNCHANGED <<signVars, initVars, authVars, ctor, call>>

\* ensureUser: signinSilent() resolves null
signinSilentResolvesNull(r) ==
  /\ req[r].pc = "signinSilent"
  /\ LET rec == [req[r] EXCEPT !.renewal = "invalid"]
     IN req' = [req EXCEPT ![r] =
                  IF IsValidUser(NoUser, expiredSet)
                    THEN CallFetch(rec, NoUser, expiredSet)
                    ELSE Settle(rec, "rejected", MkError(MsgUnauthenticated))]
  /\ UNCHANGED <<user, expiredSet, issued, signVars, initVars, authVars, ctor, call>>

\* ensureUser: signinSilent() rejects; the catch block swallows the failure
signinSilentRejects(r, e) ==
  /\ req[r].pc = "signinSilent"
  /\ req' = [req EXCEPT ![r] =
               Settle([@ EXCEPT !.renewal = "threw"], "rejected", RenewalFailure(e))]
  /\ UNCHANGED <<user, expiredSet, issued, signVars, initVars, authVars, ctor, call>>

\* request(): fetchFn resolves; a response that is not ok throws the
\* "Request failed" error, any other resolves the operation
fetchResolves(r, ok) ==
  /\ req[r].pc = "fetch"
  /\ req' = [req EXCEPT ![r] =
               IF ok THEN Settle([@ EXCEPT !.fetched = "ok"], "resolved", NoError)
                     ELSE Settle([@ EXCEPT !.fetched = "notOk"], "rejected",
                                 MkError(MsgRequestFailed))]
  /\ UNCHANGED <<user, expiredSet, issued, signVars, initVars, authVars, ctor, call>>

\* request(): fetchFn rejects: request() rejects with it
fetchRejects(r, e) ==
  /\ req[r].pc = "fetch"
  /\ req' = [req EXCEPT ![r] = Settle([@ EXCEPT !.fetched = "threw"], "rejected", e)]
  /\ UNCHANGED <<user, expiredSet, issued, signVars, initVars, authVars, ctor, call>>

(* ---- the session as the UserManager changes it behind the client ----- *)
\* the stored session's access token runs out
SessionExpires ==
  /\ user # NoUser
  /\ user \notin expiredSet
  /\ expiredSet' = expiredSet \cup {user}
  /\ UNCHANGED <<user, issued, req, signVars, initVars, authVars, ctor, call>>

\* the stored session is removed (sign-out, unload)
SessionRemoved ==
  /\ user # NoUser
  /\ user' = NoUser
  /\ UNCHANGED <<expiredSet, issued, req, signVars, initVars, authVars, ctor, call>>

\* a sign-in completes and the UserManager stores its session
SessionLoaded ==
  /\ issued < MaxSession
  /\ issued' = issued + 1
  /\ user' = issued + 1
  /\ UNCHANGED <<expiredSet, req, signVars, initVars, authVars, ctor, call>>

(* --------------------------- signInRedirect --------------------------- *)
\* isInIframe(): window.self !== window.top, and a comparison that throws
\* (cross-origin access) counts as framed
isInIframe_ThrowMeansUnframed(w, f) == w /\ f = "different"
isInIframe(w, f) ==
  IF ~w THEN FALSE
  ELSE CASE f = "same" -> FALSE
         [] f = "different" -> TRUE
         [] OTHER -> TRUE

\* shouldFallbackFromPopup(error)
shouldFallbackFromPopup_Always(e) == TRUE
shouldFallbackFromPopup_CaseSensitive(e) ==
  /\ e.isError
  /\ \/ includes(e.message, NeedlePopup)
     \/ includes(e.message, NeedleWindowClosed)
     \/ includes(e.message, NeedleOpenNull)
shouldFallbackFromPopup(e) ==
  /\ e.isError
  /\ LET message == toLowerCase(e.message)
     IN \/ includes(message, NeedlePopup)
        \/ includes(message, NeedleWindowClosed)
        \/ includes(message, NeedleOpenNull)

\* signInWithRedirect: the redirectTarget passed to signinRedirect
RedirectTarget_AlwaysTop(isIframe) == "top"
RedirectTarget(isIframe) == IF isIframe THEN "top" ELSE "self"

\* signInWithRedirect: the error thrown when signinRedirect fails with `e`
RedirectFailure_Generic(isIframe, e) == MkError(MsgRedirectFailed)
RedirectFailure(isIframe, e) ==
  IF isIframe THEN MkError(MsgEmbeddedLoginBlocked)
  ELSE MkError(MsgRedirectFailed)

\* the UserManager calls a signInRedirect call makes, in order
PopupCall == [fn |-> "signinPopup", redirectTarget |-> "none", redirectMethod |-> "none"]
RedirectCall(target) ==
  [fn |-> "signinRedirect", redirectTarget |-> target, redirectMethod |-> "assign"]

\* no signInRedirect call yet
IdleSignIn ==
  [pc |-> "idle",
   calls |-> <<>>,           \* the UserManager calls made, in order
   isIframe |-> FALSE,       \* signInWithRedirect's local
   popup |-> "none",         \* signinPopup(): none, pending, fulfilled, rejected
   redirect |-> "none",      \* signinRedirect(): likewise
   popupError |-> NoError,   \* what signinPopup() rejected with
   redirectError |-> NoError,\* what signinRedirect() rejected with
   error |-> NoError]        \* what signInRedirect() rejected with

\* signInWithRedirect(): reads isInIframe() and calls signinRedirect
CallRedirect(rec) ==
  LET isIframe == hasWindow /\ isInIframe(hasWindow, frame)
  IN [rec EXCEPT !.pc = "signinRedirect",
                 !.redirect = "pending",
                 !.isIframe = isIframe,
                 !.calls = Append(@, RedirectCall(RedirectTarget(isIframe)))]

\* signInRedirect(): framed, the popup sign-in is started; otherwise the
\* redirect sign-in
signInRedirect ==
  /\ si.pc \in {"idle", "resolved", "rejected"}
  /\ signIns < MaxSignIn
  /\ signIns' = signIns + 1
  /\ si' = IF isInIframe(hasWindow, frame)
             THEN [IdleSignIn EXCEPT !.pc = "signinPopup", !.popup = "pending",
                                     !.calls = <<PopupCall>>]
             ELSE CallRedirect(IdleSignIn)
  /\ UNCHANGED <<dataVars, hasWindow, frame, initVars, authVars, ctor, call>>

\* signinPopup() resolves: the UserManager has stored the new session
signinPopupResolves ==
  /\ si.pc = "signinPopup"
  /\ issued < MaxSession
  /\ issued' = issued + 1
  /\ user' = issued + 1
  /\ si' = [si EXCEPT !.pc = "resolved", !.popup = "fulfilled"]
  /\ UNCHANGED <<expiredSet, req, hasWindow, frame, signIns, initVars, authVars, ctor, call>>

\* signinPopup() rejects: rethrown, or the redirect sign-in is started
signinPopupRejects(e) ==
  /\ si.pc = "signinPopup"
  /\ si' = LET rec == [si EXCEPT !.popup = "rejected", !.popupError = e]
           IN IF ~shouldFallbackFromPopup(e)
                THEN [rec EXCEPT !.pc = "rejected", !.error = e]
                ELSE CallRedirect(rec)
  /\ UNCHANGED <<dataVars, hasWindow, frame, signIns, initVars, authVars, ctor, call>>

\* signinRedirect() resolves (the navigation is under way)
signinRedirectResolves ==
  /\ si.pc = "signinRedirect"
  /\ si' = [si EXCEPT !.pc = "resolved", !.redirect = "fulfilled"]
  /\ UNCHANGED <<dataVars, hasWindow, frame, signIns, initVars, authVars, ctor, call>>

\* signinRedirect() rejects: the catch block throws an error of its own
signinRedirectRejects(e) ==
  /\ si.pc = "signinRedirect"
  /\ si' = [si EXCEPT !.pc = "rejected",
                      !.redirect = "rejected",
                      !.redirectError = e,
                      !.error = RedirectFailure(si.isIframe, e)]
  /\ UNCHANGED <<dataVars, hasWindow, frame, signIns, initVars, authVars, ctor, call>>

(* -------------------------------- init -------------------------------- *)
\* the parameters clearAuthParamsFromUrl deletes
ScrubbedParams ==
  {K_code, K_state, K_session_state, K_error, K_error_description}

\* `s.startsWith("#") ? s.slice(1) : s`
StripHash(s) == IF s # <<>> /\ Head(s) = "#" THEN Tail(s) ELSE s

\* getAuthParamsFromLocation(): the query's parameters when it has any,
\* otherwise those of the hash (after its "?", or the whole of it when it
\* holds "code=" or "state=")
getAuthParamsFromLocation_QueryOnly(w, loc) ==
  IF ~w THEN <<>> ELSE URLSearchParams(loc.search)

getAuthParamsFromLocation(w, loc) ==
  IF ~w THEN <<>>
  ELSE LET params == URLSearchParams(loc.search)
           hashValue == StripHash(loc.hash)
           queryIndex == indexOf(hashValue, "?")
       IN IF paramsToString(params) # <<>> THEN params
          ELSE IF loc.hash = <<>> THEN params
          ELSE IF queryIndex >= 0
            THEN URLSearchParams(sliceFrom(hashValue, queryIndex + 1))
          ELSE IF includes(hashValue, NeedleCodeEq) \/ includes(hashValue, NeedleStateEq)
            THEN URLSearchParams(hashValue)
          ELSE params

\* isRedirectCallback()
isRedirectCallback(w, loc) ==
  IF ~w THEN FALSE
  ELSE LET params == getAuthParamsFromLocation(w, loc)
       IN \/ has(params, K_code)
          \/ has(params, K_state)
          \/ has(params, K_error)
          \/ has(params, K_id_token)

\* isPopupContext(): `!!window.opener && window.opener !== window`
isPopupContext_AnyOpener(w, o) == w /\ o # "none"
isPopupContext(w, o) == IF ~w THEN FALSE ELSE o # "none" /\ o # "self"

\* isMissingCallbackStateError(error)
isMissingCallbackStateError_Always(e) == TRUE

isMissingCallbackStateError_CaseSensitive(e) ==
  /\ e.isError
  /\ \/ includes(e.message, NeedleNoState)
     \/ includes(e.message, NeedleStateNotFound)
     \/ includes(e.message, NeedleInvalidResponseType)

isMissingCallbackStateError(e) ==
  /\ e.isError
  /\ LET message == toLowerCase(e.message)
     IN \/ includes(message, NeedleNoState)
        \/ includes(message, NeedleStateNotFound)
        \/ includes(message, NeedleInvalidResponseType)

\* the URL's search after url.searchParams.delete(...): the query is
\* rewritten from the remaining list
SearchAfterDelete(search) ==
  LET cleaned == paramsToString(deleteAll(URLSearchParams(search), ScrubbedParams))
  IN IF cleaned = <<>> THEN <<>> ELSE <<"?">> \o cleaned

\* the URL's hash after `url.hash = value`
SetHash(value) ==
  LET fragment == StripHash(value)
  IN IF fragment = <<>> THEN <<>> ELSE <<"#">> \o fragment

\* the URL's hash as clearAuthParamsFromUrl rebuilds it
HashAfterScrub_DropsRoute(urlHash) ==
  LET hash == StripHash(urlHash)
      queryIndex == indexOf(hash, "?")
  IN IF hash = <<>> THEN urlHash
     ELSE IF queryIndex >= 0
       THEN LET cleaned == paramsToString(
                             deleteAll(URLSearchParams(sliceFrom(hash, queryIndex + 1)),
                                       ScrubbedParams))
            IN SetHash(IF cleaned # <<>> THEN <<"#">> \o cleaned ELSE <<>>)
     ELSE IF includes(hash, <<"=">>)
       THEN LET cleaned == paramsToString(deleteAll(URLSearchParams(hash), ScrubbedParams))
            IN SetHash(IF cleaned # <<>> THEN <<"#">> \o cleaned ELSE <<>>)
     ELSE urlHash

HashAfterScrub(urlHash) ==
  LET hash == StripHash(urlHash)
      queryIndex == indexOf(hash, "?")
  IN IF hash = <<>> THEN urlHash
     ELSE IF queryIndex >= 0
       THEN LET route == sliceTo(hash, queryIndex)
                cleaned == paramsToString(
                             deleteAll(URLSearchParams(sliceFrom(hash, queryIndex + 1)),
                                       ScrubbedParams))
            IN SetHash(IF route # <<>>
                         THEN IF cleaned # <<>>
                                THEN <<"#">> \o route \o <<"?">> \o cleaned
                                ELSE <<"#">> \o route
                         ELSE IF cleaned # <<>> THEN <<"#">> \o cleaned ELSE <<>>)
     ELSE IF includes(hash, <<"=">>)
       THEN LET cleaned == paramsToString(deleteAll(URLSearchParams(hash), ScrubbedParams))
            IN SetHash(IF cleaned # <<>> THEN <<"#">> \o cleaned ELSE <<>>)
     ELSE urlHash

\* clearAuthParamsFromUrl(): the location history.replaceState is given;
\* nothing changes without a window or without history.replaceState
clearAuthParamsFromUrl_Skipped(w, canReplace, loc) == loc
clearAuthParamsFromUrl(w, canReplace, loc) ==
  IF ~w \/ ~canReplace THEN loc
  ELSE [search |-> SearchAfterDelete(loc.search), hash |-> HashAfterScrub(loc.hash)]

\* window.history.replaceState(...): the length of the history afterwards;
\* the current entry is replaced, none is added
replaceState_Push(len) == len + 1
replaceState(len) == len

\* handleAuthCallback(): the exchange it starts
handleAuthCallback(w, o) ==
  IF isPopupContext(w, o) THEN "signinPopupCallback" ELSE "signinCallback"

\* no init call yet
IdleInit ==
  [pc |-> "idle",
   hasCallbackParams |-> FALSE, \* init's locals
   isPopupWindow |-> FALSE,
   exchanges |-> <<>>,          \* the callback exchanges started, in order
   exchange |-> "none",         \* the exchange: none, pending, fulfilled, rejected
   before |-> [search |-> <<>>, hash |-> <<>>], \* the location at the call
   replaceCallsBefore |-> 0,    \* history.replaceState calls before the call
   thrown |-> NoError,          \* what the callback exchange rejected with
   error |-> NoError]           \* what init() rejected with

\* init(): returns at once when there is neither a callback nor a popup,
\* otherwise starts the callback exchange
init ==
  /\ ini.pc \in {"idle", "resolved", "rejected"}
  /\ ~windowClosed
  /\ inits < MaxInit
  /\ inits' = inits + 1
  /\ LET hasCallbackParams == isRedirectCallback(hasWindow, location)
         isPopupWindow == isPopupContext(hasWindow, opener)
         rec == [IdleInit EXCEPT !.hasCallbackParams = hasCallbackParams,
                                 !.isPopupWindow = isPopupWindow,
                                 !.before = location,
                                 !.replaceCallsBefore = replaceCalls]
     IN ini' = IF ~hasCallbackParams /\ ~isPopupWindow
                 THEN [rec EXCEPT !.pc = "resolved"]
                 ELSE [rec EXCEPT !.pc = "callback",
                                  !.exchange = "pending",
                                  !.exchanges = <<handleAuthCallback(hasWindow, opener)>>]
  /\ UNCHANGED <<dataVars, signVars, opener, hasReplaceState, location,
                 historyLen, replaceCalls, windowClosed>>
  /\ UNCHANGED <<authVars, ctor, call>>

\* the callback exchange resolves (signinCallback has stored the session of
\* the sign-in); the URL is scrubbed when callback parameters were present
callbackResolves ==
  /\ ini.pc = "callback"
  /\ issued < MaxSession
  /\ IF Head(ini.exchanges) = "signinCallback"
       THEN issued' = issued + 1 /\ user' = issued + 1
       ELSE UNCHANGED <<issued, user>>
  /\ ini' = [ini EXCEPT !.pc = "resolved", !.exchange = "fulfilled"]
  /\ IF ini.hasCallbackParams
       THEN /\ location' = clearAuthParamsFromUrl(hasWindow, hasReplaceState, location)
            /\ replaceCalls' = IF hasWindow /\ hasReplaceState
                                 THEN replaceCalls + 1 ELSE replaceCalls
            /\ historyLen' = IF hasWindow /\ hasReplaceState
                               THEN replaceState(historyLen) ELSE historyLen
       ELSE UNCHANGED <<location, replaceCalls, historyLen>>
  /\ UNCHANGED <<expiredSet, req, signVars, opener, hasReplaceState,
                 windowClosed, inits>>
  /\ UNCHANGED <<authVars, ctor, call>>

\* the callback exchange rejects: a popup that lost its callback state is
\* closed, any other failure is rethrown
callbackRejects_Scrubs(e) ==
  /\ ini.pc = "callback"
  /\ IF ini.isPopupWindow /\ isMissingCallbackStateError(e)
       THEN /\ windowClosed' = TRUE
            /\ ini' = [ini EXCEPT !.pc = "resolved", !.exchange = "rejected",
                                  !.thrown = e]
       ELSE /\ windowClosed' = windowClosed
            /\ ini' = [ini EXCEPT !.pc = "rejected", !.exchange = "rejected",
                                  !.thrown = e, !.error = e]
  /\ location' = IF ini.hasCallbackParams
                   THEN clearAuthParamsFromUrl(hasWindow, hasReplaceState, location)
                   ELSE location
  /\ UNCHANGED <<dataVars, signVars, opener, hasReplaceState,
                 historyLen, replaceCalls, inits>>
  /\ UNCHANGED <<authVars, ctor, call>>

callbackRejects(e) ==
  /\ ini.pc = "callback"
  /\ IF ini.isPopupWindow /\ isMissingCallbackStateError(e)
       THEN /\ windowClosed' = TRUE
            /\ ini' = [ini EXCEPT !.pc = "resolved", !.exchange = "rejected",
                                  !.thrown = e]
       ELSE /\ windowClosed' = windowClosed
            /\ ini' = [ini EXCEPT !.pc = "rejected", !.exchange = "rejected",
                                  !.thrown = e, !.error = e]
  /\ UNCHANGED <<dataVars, signVars, opener, hasReplaceState, location,
                 historyLen, replaceCalls, inits>>
  /\ UNCHANGED <<authVars, ctor, call>>

(* -------------------------- onAuthStateChange ------------------------- *)
\* the UserManager events a subscription registers a handler for
Events ==
  {"userLoaded", "userUnloaded", "userSignedOut", "accessTokenExpired",
   "silentRenewError"}

\* the events whose handler re-fetches the session (emitCurrentState)
RefetchEvents ==
  {"userUnloaded", "userSignedOut", "accessTokenExpired", "silentRenewError"}

\* what started an emitCurrentState call: the subscription itself, or a handler
Causes == {"initial"} \cup RefetchEvents

\* a registered handler: one of this subscription's closures, or one that
\* another subscription registered
Handlers == {"own", "other"}

\* toAuthState(user)
toAuthState_ExposesExpired(u, exp) ==
  [user |-> u, isAuthenticated |-> u # NoUser /\ u \notin exp]

toAuthState(u, exp) ==
  LET activeUser == IF u # NoUser /\ u \notin exp THEN u ELSE NoUser
  IN [user |-> activeUser, isAuthenticated |-> activeUser # NoUser]

\* toAuthStateChangeTrigger(user)
toAuthStateChangeTrigger(u, exp) ==
  IF u # NoUser /\ u \notin exp THEN "authenticated" ELSE "unauthenticated"

\* the listener has not been invoked
NoEmission ==
  [state |-> [user |-> NoUser, isAuthenticated |-> FALSE],
   trigger |-> "none", cause |-> "none", given |-> NoUser, givenExpired |-> FALSE]

\* no onAuthStateChange call yet
IdleSub ==
  [called |-> FALSE,
   isSubscribed |-> FALSE,   \* the closure's flag
   pending |-> [c \in Causes |-> 0], \* emitCurrentState calls awaiting getUser
   emitted |-> 0,            \* invocations of the listener
   initialEmitted |-> 0,     \* those of the initial replay
   last |-> NoEmission,      \* the latest invocation of the listener
   atCall |-> [user |-> NoUser, isAuthenticated |-> FALSE], \* the state at the call
   initial |-> "none",       \* the initial replay: none, pending, emitted,
                             \* suppressed (returned at the flag), failed
   atRead |-> {},            \* the events with a handler of the subscription
                             \* when the initial replay called getUser
   storedAtCall |-> NoUser,  \* the stored session at the call, when the
                             \* initial replay called getUser
   signals |-> 0,            \* lifecycle signals delivered to its handlers
   unsubCalls |-> 0,         \* calls of its unsubscribe function
   dropped |-> 0]            \* re-fetches whose getUser rejected

\* `if (!isSubscribed) return;`
MayEmit_Never(isSubscribed) == FALSE
MayEmit(isSubscribed) == isSubscribed

\* `isSubscribed = false;` of the unsubscribe function
FlagAfterUnsubscribe_Kept(flag) == flag
FlagAfterUnsubscribe(flag) == FALSE

\* emitState(user): the listener is invoked with the state and its trigger
emitState_Twice(rec, u, exp, cause) ==
  IF ~MayEmit(rec.isSubscribed) THEN rec
  ELSE [rec EXCEPT !.emitted = @ + 2,
                   !.initialEmitted = IF cause = "initial" THEN @ + 1 ELSE @,
                   !.last = [state |-> toAuthState(u, exp),
                             trigger |-> toAuthStateChangeTrigger(u, exp),
                             cause |-> cause,
                             given |-> u,
                             givenExpired |-> u \in exp]]

emitState(rec, u, exp, cause) ==
  IF ~MayEmit(rec.isSubscribed) THEN rec
  ELSE [rec EXCEPT !.emitted = @ + 1,
                   !.initialEmitted = IF cause = "initial" THEN @ + 1 ELSE @,
                   !.last = [state |-> toAuthState(u, exp),
                             trigger |-> toAuthStateChangeTrigger(u, exp),
                             cause |-> cause,
                             given |-> u,
                             givenExpired |-> u \in exp]]

\* events.addUserLoaded(...) ... events.addSilentRenewError(...)
Register(h) == [ev \in Events |-> h[ev] \cup {"own"}]

\* events.removeUserLoaded(...) ... events.removeSilentRenewError(...)
Deregister_OnlyUserLoaded(h) ==
  [ev \in Events |-> IF ev = "userLoaded" THEN h[ev] \ {"own"} ELSE h[ev]]

Deregister(h) == [ev \in Events |-> h[ev] \ {"own"}]

\* the handlers in place when `void emitCurrentState()` is reached: the
\* five add* calls come first
HandlersAtInitialRead_BeforeRegistration(before, after) == before
HandlersAtInitialRead(before, after) == after

\* onAuthStateChange(listener): registers the five handlers and starts the
\* initial replay
onAuthStateChange ==
  /\ ~sub.called
  /\ sub' = [IdleSub EXCEPT !.called = TRUE,
                            !.isSubscribed = TRUE,
                            !.pending = [@ EXCEPT !["initial"] = 1],
                            !.storedAtCall = user,
                            !.initial = "pending",
                            !.atRead =
                              {ev \in Events : "own" \in
                                 HandlersAtInitialRead(handlers, Register(handlers))[ev]},
                            !.atCall = toAuthState(user, expiredSet)]
  /\ handlers' = Register(handlers)
  /\ UNCHANGED <<dataVars, signVars, initVars, ctor, call>>

\* the function onAuthStateChange returned
unsubscribe ==
  /\ sub.called
  /\ sub.unsubCalls < MaxUnsub
  /\ sub' = [sub EXCEPT !.isSubscribed = FlagAfterUnsubscribe(@),
                        !.unsubCalls = @ + 1]
  /\ handlers' = Deregister(handlers)
  /\ UNCHANGED <<dataVars, signVars, initVars, ctor, call>>

\* userLoaded is raised with the stored session: handleUserLoaded
userLoadedFires ==
  /\ "own" \in handlers["userLoaded"]
  /\ user # NoUser
  /\ sub.signals < MaxSignal
  /\ sub' = [emitState(sub, user, expiredSet, "userLoaded")
               EXCEPT !.signals = @ + 1]
  /\ UNCHANGED <<dataVars, signVars, initVars, handlers, ctor, call>>

\* one of the other four events is raised: its handler starts a re-fetch
signalFires(ev) ==
  /\ "own" \in handlers[ev]
  /\ sub.signals < MaxSignal
  /\ sub' = [sub EXCEPT !.pending[ev] = @ + 1, !.signals = @ + 1]
  /\ UNCHANGED <<dataVars, signVars, initVars, handlers, ctor, call>>

\* emitCurrentState: its getUser resolves, with the session stored now or
\* (the initial replay, whose read may have been made when getUser was
\* called) with the one stored at the call; `expired` is read when the
\* state is derived
emitGetUserResolves(cause, stale) ==
  /\ sub.pending[cause] > 0
  /\ stale => cause = "initial" /\ sub.storedAtCall # user
  /\ LET resolved == IF stale THEN sub.storedAtCall ELSE user
         rec == [sub EXCEPT !.pending[cause] = @ - 1]
         done == IF ~rec.isSubscribed THEN rec
                 ELSE emitState(rec, resolved, expiredSet, cause)
     IN sub' = IF cause = "initial"
                 THEN [done EXCEPT !.initial =
                         IF rec.isSubscribed THEN "emitted" ELSE "suppressed"]
                 ELSE done
  /\ UNCHANGED <<dataVars, signVars, initVars, handlers, ctor, call>>

\* emitCurrentState: its getUser rejects; the promise was discarded (void)
emitGetUserRejects(cause, e) ==
  /\ sub.pending[cause] > 0
  /\ LET rec == [sub EXCEPT !.pending[cause] = @ - 1, !.dropped = @ + 1]
     IN sub' = IF cause = "initial" THEN [rec EXCEPT !.initial = "failed"] ELSE rec
  /\ UNCHANGED <<dataVars, signVars, initVars, handlers, ctor, call>>

\* the UserManager changes the session and raises the event of the change,
\* which reaches the handler of the subscription at once: a sign-in stores
\* a session (userLoaded, which carries it), the session is removed
\* (userUnloaded), its access token runs out (accessTokenExpired)
sessionChangeRaises(ev) ==
  /\ "own" \in handlers[ev]
  /\ sub.signals < MaxSignal
  /\ \/ /\ ev = "userLoaded"
        /\ issued < MaxSession
        /\ issued' = issued + 1
        /\ user' = issued + 1
        /\ expiredSet' = expiredSet
        /\ sub' = [emitState(sub, issued + 1, expiredSet, "userLoaded")
                     EXCEPT !.signals = @ + 1]
     \/ /\ ev = "userUnloaded"
        /\ user # NoUser
        /\ user' = NoUser
        /\ UNCHANGED <<issued, expiredSet>>
        /\ sub' = [sub EXCEPT !.pending[ev] = @ + 1, !.signals = @ + 1]
     \/ /\ ev = "accessTokenExpired"
        /\ user # NoUser
        /\ user \notin expiredSet
        /\ expiredSet' = expiredSet \cup {user}
        /\ UNCHANGED <<issued, user>>
        /\ sub' = [sub EXCEPT !.pending[ev] = @ + 1, !.signals = @ + 1]
  /\ UNCHANGED <<req, signVars, initVars, handlers, ctor, call>>

\* another subscription registers its five handlers, or removes them
otherSubscription ==
  /\ handlers' = [ev \in Events |->
                    IF "other" \in handlers[ev] THEN handlers[ev] \ {"other"}
                    ELSE handlers[ev] \cup {"other"}]
  /\ UNCHANGED <<dataVars, signVars, initVars, sub, ctor, call>>

(* ----------------------------- publishable key ----------------------- *)
\* A key is a string of characters; the text atob() returns is a binary
\* string, kept as the sequence of its character codes.
\* the base64 alphabet, by value
Base64Alphabet ==
  UpperChars \o LowerChars \o <<"0","1","2","3","4","5","6","7","8","9">>
    \o <<"+", "/">>

\* btoa(text): standard base64 with padding
RECURSIVE btoa(_)
btoa(bytes) ==
  LET Ch(v) == Base64Alphabet[v + 1]
      b1 == bytes[1]
      b2 == bytes[2]
      b3 == bytes[3]
  IN IF bytes = <<>> THEN <<>>
     ELSE IF Len(bytes) = 1
       THEN <<Ch(b1 \div 4), Ch((b1 % 4) * 16), "=", "=">>
     ELSE IF Len(bytes) = 2
       THEN <<Ch(b1 \div 4), Ch((b1 % 4) * 16 + b2 \div 16), Ch((b2 % 16) * 4), "=">>
     ELSE <<Ch(b1 \div 4), Ch((b1 % 4) * 16 + b2 \div 16),
            Ch((b2 % 16) * 4 + b3 \div 64), Ch(b3 % 64)>>
            \o btoa(SubSeq(bytes, 4, Len(bytes)))

\* atob(data): forgiving-base64 decode; ok is FALSE where atob throws
atob(data) ==
  LET IsPad(i) == data[i] = "="
      stripped ==
        IF Len(data) % 4 = 0 /\ Len(data) >= 2 /\ IsPad(Len(data)) /\ IsPad(Len(data) - 1)
          THEN SubSeq(data, 1, Len(data) - 2)
        ELSE IF Len(data) % 4 = 0 /\ Len(data) >= 1 /\ IsPad(Len(data))
          THEN SubSeq(data, 1, Len(data) - 1)
        ELSE data
      InAlphabet(c) == \E v \in 1..64 : Base64Alphabet[v] = c
      Val(c) == (CHOOSE v \in 1..64 : Base64Alphabet[v] = c) - 1
      RECURSIVE Decode(_)
      Decode(s) ==
        IF Len(s) < 2 THEN <<>>
        ELSE LET v1 == Val(s[1])
                 v2 == Val(s[2])
             IN IF Len(s) = 2 THEN <<v1 * 4 + v2 \div 16>>
                ELSE LET v3 == Val(s[3])
                     IN IF Len(s) = 3
                          THEN <<v1 * 4 + v2 \div 16, (v2 % 16) * 16 + v3 \div 4>>
                          ELSE <<v1 * 4 + v2 \div 16, (v2 % 16) * 16 + v3 \div 4,
                                 (v3 % 4) * 64 + Val(s[4])>>
                                 \o Decode(SubSeq(s, 5, Len(s)))
  IN IF Len(stripped) % 4 = 1 \/ \E i \in 1..Len(stripped) : ~InAlphabet(stripped[i])
       THEN [ok |-> FALSE, text |-> <<>>]
       ELSE [ok |-> TRUE, text |-> Decode(stripped)]

\* normalizeBase64(value): base64url and "|" variants to the standard
\* alphabet, padded to a multiple of four
normalizeBase64(value) ==
  LET Std(c) == IF c = "-" THEN "+" ELSE IF c \in {"_", "|"} THEN "/" ELSE c
      normalized == [i \in 1..Len(value) |-> Std(value[i])]
      padding == Len(normalized) % 4
  IN IF padding # 0
       THEN normalized \o [i \in 1..(4 - padding) |-> "="]
       ELSE normalized

PUBLISHABLE_PREFIX ==
  <<"s","h","_","p","u","b","l","i","s","h","a","b","l","e","_">>

\* String.prototype.startsWith
startsWith(s, prefix) ==
  Len(s) >= Len(prefix) /\ SubSeq(s, 1, Len(prefix)) = prefix

\* the character code of ":"
Colon == 58

\* decoded.split("::")
RECURSIVE SplitOnColons(_)
SplitOnColons(text) ==
  LET At(i) == text[i] = Colon /\ text[i + 1] = Colon
      found == \E i \in 1..(Len(text) - 1) : At(i)
      k == CHOOSE i \in 1..(Len(text) - 1) : At(i) /\ \A j \in 1..(i - 1) : ~At(j)
  IN IF ~found THEN <<text>>
     ELSE <<SubSeq(text, 1, k - 1)>> \o SplitOnColons(SubSeq(text, k + 2, Len(text)))

\* decodePublishableKey(publishableKey): the decoded key, or the error thrown
decodePublishableKey_KeepsPrefix(publishableKey) ==
  LET decoded == atob(normalizeBase64(publishableKey))
      parts == SplitOnColons(decoded.text)
  IN IF ~decoded.ok
       THEN [ok |-> FALSE, error |-> "publishableKey is not valid base64."]
     ELSE IF Len(parts) # 2 \/ parts[1] = <<>> \/ parts[2] = <<>>
       THEN [ok |-> FALSE, error |-> "publishableKey payload is invalid."]
     ELSE [ok |-> TRUE, encryptedKey |-> parts[1], environment |-> parts[2]]

decodePublishableKey(publishableKey) ==
  IF ~startsWith(publishableKey, PUBLISHABLE_PREFIX)
    THEN [ok |-> FALSE,
          error |-> "publishableKey is invalid or missing required prefix."]
  ELSE LET encoded == sliceFrom(publishableKey, Len(PUBLISHABLE_PREFIX))
           decoded == atob(normalizeBase64(encoded))
           parts == SplitOnColons(decoded.text)
       IN IF ~decoded.ok
            THEN [ok |-> FALSE, error |-> "publishableKey is not valid base64."]
          ELSE IF Len(parts) # 2 \/ parts[1] = <<>> \/ parts[2] = <<>>
            THEN [ok |-> FALSE, error |-> "publishableKey payload is invalid."]
          ELSE [ok |-> TRUE, encryptedKey |-> parts[1], environment |-> parts[2]]

(* ----------------------------- constructor --------------------------- *)
\* an optional value: undefined (with the empty value of its type), or given
Undefined(empty) == [given |-> FALSE, value |-> empty]
Some(v) == [given |-> TRUE, value |-> v]

\* {}
EmptyObject == [f \in {} |-> ""]

\* a settings value: what it was built from (a key, an environment, a store)
SettingValue(kind, key, env, store) ==
  [kind |-> kind, key |-> key, env |-> env, store |-> store]

\* { ...a, ...b }
Spread(a, b) ==
  [f \in DOMAIN a \cup DOMAIN b |-> IF f \in DOMAIN b THEN b[f] ELSE a[f]]

\* the two stores bound to the client's storage
StoreBindings(storage) ==
  [f \in {"userStore", "stateStore"} |->
     SettingValue("WebStorageStateStore", <<>>, <<>>, storage)]

\* String.prototype.trim (spaces)
RECURSIVE trim(_)
trim(s) ==
  IF s = <<>> THEN s
  ELSE IF Head(s) = " " THEN trim(Tail(s))
  ELSE IF s[Len(s)] = " " THEN trim(SubSeq(s, 1, Len(s) - 1))
  ELSE s

\* resolveAuthSettings(input): the settings, or the error thrown
resolveAuthSettings_OverridesExplicit(publishableKey, derived, options, storage, w) ==
  IF options.auth.given
    THEN [ok |-> TRUE, path |-> "explicit",
          settings |-> Spread(Spread(options.auth.value, options.authOverrides.value),
                              StoreBindings(storage))]
    ELSE [ok |-> FALSE, error |-> "Either auth or publishableKey must be provided."]

resolveAuthSettings(publishableKey, derived, options, storage, w) ==
  IF options.auth.given
    THEN [ok |-> TRUE, path |-> "explicit",
          settings |-> Spread(options.auth.value, StoreBindings(storage))]
  ELSE IF publishableKey = <<>> \/ ~derived.ok
    THEN [ok |-> FALSE, error |-> "Either auth or publishableKey must be provided."]
  ELSE IF ~w
    THEN [ok |-> FALSE, error |-> "publishableKey auth requires a browser environment."]
  ELSE LET Default(f) ==
             CASE f = "authority" ->
                    SettingValue("https://apis.${environment}.synchive.com/v1/auth/",
                                 <<>>, derived.environment, "none")
               [] f = "client_id" -> SettingValue("publishableKey", publishableKey, <<>>, "none")
               [] f \in {"redirect_uri", "silent_redirect_uri"} ->
                    SettingValue("window.location.origin", <<>>, <<>>, "none")
               [] f = "response_type" -> SettingValue("code", <<>>, <<>>, "none")
               [] f = "scope" ->
                    SettingValue("openid profile offline_access", <<>>, <<>>, "none")
           defaults ==
             [f \in {"authority", "client_id", "redirect_uri", "silent_redirect_uri",
                     "response_type", "scope"} |-> Default(f)]
       IN [ok |-> TRUE, path |-> "derived",
           settings |-> Spread(Spread(defaults, options.authOverrides.value),
                               StoreBindings(storage))]

\* decodePublishableKey was not called
NotDecoded == [ok |-> FALSE, error |-> "not called"]

\* no constructor call yet
IdleCtor ==
  [pc |-> "idle",            \* idle, constructed, threw
   options |-> [publishableKey |-> Undefined(<<>>), apiBaseUrl |-> Undefined(""),
                storage |-> Undefined(""), auth |-> Undefined(EmptyObject),
                authOverrides |-> Undefined(EmptyObject)],
   publishableKey |-> <<>>,  \* the trimmed key
   decoded |-> NotDecoded,   \* what decodePublishableKey returned or threw
   path |-> "none",          \* the derivation resolveAuthSettings took
   settings |-> EmptyObject, \* the settings the UserManager was built with
   error |-> "none"]         \* what the constructor threw

\* new SyncHiveClient(options), in a page with or without localStorage
constructor(options, hasLocalStorage) ==
  /\ ctor.pc = "idle"
  /\ options.storage.given => hasLocalStorage
  /\ LET given == options.publishableKey.given
         publishableKey == IF given THEN trim(options.publishableKey.value) ELSE <<>>
         called == given /\ publishableKey # <<>>
         derived == IF called THEN decodePublishableKey(publishableKey) ELSE NotDecoded
         apiBaseUrl == IF options.apiBaseUrl.given THEN options.apiBaseUrl.value
                       ELSE IF derived.ok THEN "https://apis.${environment}.synchive.com/v1/shape"
                       ELSE ""
         storage == IF options.storage.given THEN options.storage.value
                    ELSE IF hasWindow /\ hasLocalStorage THEN "localStorage"
                    ELSE "none"
         auth == resolveAuthSettings(publishableKey, derived, options, storage, hasWindow)
         rec == [IdleCtor EXCEPT !.options = options,
                                 !.publishableKey = publishableKey,
                                 !.decoded = derived]
         Threw(e) == [rec EXCEPT !.pc = "threw", !.error = e]
     IN ctor' =
          IF called /\ ~derived.ok THEN Threw(derived.error)
          ELSE IF apiBaseUrl = ""
            THEN Threw("apiBaseUrl is required (or provide publishableKey to derive it).")
          ELSE IF storage = "none"
            THEN Threw("Storage is required (localStorage recommended for browser usage).")
          ELSE IF ~auth.ok THEN Threw(auth.error)
          ELSE [rec EXCEPT !.pc = "constructed",
                           !.path = auth.path,
                           !.settings = auth.settings]
  /\ UNCHANGED <<dataVars, signVars, initVars, authVars, call>>

\* the texts of at most `n` characters over "k" and ":" (character codes)
Texts(n) == UNION { [1..k -> {107, Colon}] : k \in 0..n }

\* the publishable keys a caller may pass: well-formed ones, the same
\* without the prefix, and one each with the prefix in another case, padded
\* with spaces, in base64url without padding, not base64, and blank
KeyInputs ==
  LET payloads == { p[1] \o <<Colon, Colon>> \o p[2] :
                      p \in { q \in Texts(MaxText) \X Texts(MaxText) :
                                Len(q[1]) + Len(q[2]) <= MaxText } }
  IN { PUBLISHABLE_PREFIX \o btoa(p) : p \in payloads }
     \cup { btoa(p) : p \in payloads }
     \cup { <<" ">> \o PUBLISHABLE_PREFIX \o btoa(<<107, Colon, Colon, 107>>) \o <<" ">>,
            <<"S","H","_">> \o btoa(<<107, Colon, Colon, 107>>),
            PUBLISHABLE_PREFIX \o <<"a","z","o","6","Z","Q">>,
            PUBLISHABLE_PREFIX \o <<"!", "!">>,
            <<" ">> }

\* the option objects a caller may pass; the explicit auth settings (the
\* second with a userStore of its own) and the overrides are any values
OptionInputs ==
  LET AuthInputs ==
        { [f \in fields |-> SettingValue("options.auth", <<>>, <<>>, "none")] :
            fields \in { {"authority", "client_id", "redirect_uri"},
                         {"authority", "client_id", "redirect_uri", "userStore"} } }
      OverrideInputs ==
        { [f \in fields |-> SettingValue("options.authOverrides", <<>>, <<>>, "none")] :
            fields \in { {"scope"}, {"authority", "stateStore"} } }
  IN [publishableKey : {Undefined(<<>>)} \cup { Some(k) : k \in KeyInputs },
      apiBaseUrl : {Undefined(""), Some("https://api.example/v1/shape")},
      storage : {Undefined(""), Some("custom")},
      auth : {Undefined(EmptyObject)} \cup { Some(a) : a \in AuthInputs },
      authOverrides : {Undefined(EmptyObject)} \cup { Some(o) : o \in OverrideInputs }]

(* ----------------------- signOutRedirect, getUser --------------------- *)
\* no signOutRedirect or getUser call yet
IdleCall ==
  [pc |-> "idle",       \* idle, signoutRedirect, getUser, resolved, rejected
   op |-> "none",       \* the method called
   thrown |-> NoError,  \* what the UserManager call rejected with
   result |-> NoUser,   \* what getUser() resolved with
   error |-> NoError]   \* what the method rejected with

\* signOutRedirect(): awaits userManager.signoutRedirect()
signOutRedirect ==
  /\ call.pc = "idle"
  /\ call' = [IdleCall EXCEPT !.pc = "signoutRedirect", !.op = "signOutRedirect"]
  /\ UNCHANGED <<dataVars, signVars, initVars, authVars, ctor>>

\* getUser(): returns userManager.getUser()
getUser ==
  /\ call.pc = "idle"
  /\ call' = [IdleCall EXCEPT !.pc = "getUser", !.op = "getUser"]
  /\ UNCHANGED <<dataVars, signVars, initVars, authVars, ctor>>

\* the UserManager call resolves: so does the method
callResolves ==
  /\ call.pc \in {"signoutRedirect", "getUser"}
  /\ call' = [call EXCEPT !.pc = "resolved",
                          !.result = IF call.op = "getUser" THEN user ELSE NoUser]
  /\ UNCHANGED <<dataVars, signVars, initVars, authVars, ctor>>

\* the UserManager call rejects: the method rejects with the same value
callRejects(e) ==
  /\ call.pc \in {"signoutRedirect", "getUser"}
  /\ call' = [call EXCEPT !.pc = "rejected", !.thrown = e, !.error = e]
  /\ UNCHANGED <<dataVars, signVars, initVars, authVars, ctor>>

(* ------------------------- the page's location ------------------------ *)
\* the parameters a location may carry, in the order they appear
ParamPool ==
  << <<K_tab, <<"s","e","t","t","i","n","g","s">>>>, <<K_code, <<"a">>>>,
     <<K_state, <<"x">>>>, <<K_session_state, <<"s">>>>, <<K_error, <<"e">>>>,
     <<K_error_description, <<"d">>>>, <<K_id_token, <<"t">>>>,
     <<K_next, <<"/","h">>>> >>

\* the selections of at most `n` parameters of the pool, in pool order
Selections(n) ==
  { s \in UNION { [1..k -> 1..Len(ParamPool)] : k \in 0..n } :
      \A i \in 1..(Len(s) - 1) : s[i] < s[i + 1] }

\* "name=value&name=value" as it stands in a URL (nothing escaped)
RECURSIVE RawQuery(_)
RawQuery(sel) ==
  IF sel = <<>> THEN <<>>
  ELSE LET first == ParamPool[sel[1]][1] \o <<"=">> \o ParamPool[sel[1]][2]
       IN IF Len(sel) = 1 THEN first
          ELSE first \o <<"&">> \o RawQuery(Tail(sel))

\* location.search: empty, or "?" and the parameters
SearchOf(sel) == IF sel = <<>> THEN <<>> ELSE <<"?">> \o RawQuery(sel)

\* location.hash: empty, a route, a route with parameters, or parameters
HashOf(sel, withRoute) ==
  IF sel = <<>>
    THEN IF withRoute THEN <<"#">> \o Route ELSE <<>>
    ELSE IF withRoute THEN <<"#">> \o Route \o <<"?">> \o RawQuery(sel)
         ELSE <<"#">> \o RawQuery(sel)

\* the locations with at most MaxParams parameters, query and hash together
Locations ==
  { [search |-> SearchOf(c[1]), hash |-> HashOf(c[2], c[3])] :
      c \in { d \in Selections(MaxParams) \X Selections(MaxParams) \X BOOLEAN :
                Len(d[1]) + Len(d[2]) <= MaxParams } }

NoLocation == [search |-> <<>>, hash |-> <<>>]

(* --------------------------- specifications --------------------------- *)
\* the browser context, before any signInRedirect call
InitSignInIdle ==
  /\ hasWindow = TRUE
  /\ frame = "same"
  /\ si = IdleSignIn
  /\ signIns = 0

\* any window relationship: no window at all, a top-level window, a frame
\* of the same origin, a frame whose top is out of reach
InitSignIn ==
  /\ hasWindow \in BOOLEAN
  /\ frame \in IF hasWindow THEN {"same", "different", "throws"} ELSE {"same"}
  /\ si = IdleSignIn
  /\ signIns = 0

\* a top-level page whose location carries nothing, before any init call
InitPageIdle ==
  /\ opener = "none"
  /\ hasReplaceState = TRUE
  /\ location = NoLocation
  /\ historyLen = 1
  /\ replaceCalls = 0
  /\ windowClosed = FALSE
  /\ ini = IdleInit
  /\ inits = 0

\* any page: no window at all, or a window with any opener and any of the
\* locations, with or without history.replaceState
InitPage ==
  /\ hasWindow \in BOOLEAN
  /\ frame = "same"
  /\ si = IdleSignIn
  /\ signIns = 0
  /\ opener \in IF hasWindow THEN {"none", "self", "other"} ELSE {"none"}
  /\ hasReplaceState \in IF hasWindow THEN BOOLEAN ELSE {FALSE}
  /\ location \in IF hasWindow THEN Locations ELSE {NoLocation}
  /\ historyLen = 1
  /\ replaceCalls = 0
  /\ windowClosed = FALSE
  /\ ini = IdleInit
  /\ inits = 0

\* no subscription, nothing registered; no other call
InitAuthIdle ==
  /\ sub = IdleSub
  /\ handlers = [ev \in Events |-> {}]
  /\ ctor = IdleCtor
  /\ call = IdleCall

\* no stored session, no data operation
InitDataIdle ==
  /\ issued = 0
  /\ user = NoUser
  /\ expiredSet = {}
  /\ req = [r \in Reqs |-> IdleReq]

\* after construction: the store may hold a session of an earlier visit
InitData ==
  /\ issued \in {0, 1}
  /\ user \in {NoUser, issued}
  /\ expiredSet \in SUBSET (1..issued)
  /\ req = [r \in Reqs |-> IdleReq]

DataNext ==
  \/ \E r \in Reqs, op \in OpKinds : request(r, op)
  \/ \E r \in Reqs : getUserResolves(r)
  \/ \E r \in Reqs, e \in DataThrown : getUserRejects(r, e)
  \/ \E r \in Reqs, isExpired \in BOOLEAN : signinSilentResolves(r, isExpired)
  \/ \E r \in Reqs : signinSilentResolvesNull(r)
  \/ \E r \in Reqs, e \in DataThrown : signinSilentRejects(r, e)
  \/ \E r \in Reqs, ok \in BOOLEAN : fetchResolves(r, ok)
  \/ \E r \in Reqs, e \in DataThrown : fetchRejects(r, e)
  \/ SessionExpires
  \/ SessionRemoved
  \/ SessionLoaded

\* the data facade alone, in a page that never signs in
DataInit == InitData /\ InitSignInIdle /\ InitPageIdle /\ InitAuthIdle
SpecData == DataInit /\ [][DataNext]_vars

SignInNext ==
  \/ signInRedirect
  \/ signinPopupResolves
  \/ \E e \in Thrown : signinPopupRejects(e)
  \/ signinRedirectResolves
  \/ \E e \in Thrown : signinRedirectRejects(e)

\* signInRedirect alone
SignInInit == InitDataIdle /\ InitSignIn /\ InitPageIdle /\ InitAuthIdle
SpecSignIn == SignInInit /\ [][SignInNext]_vars

PageNext ==
  \/ init
  \/ callbackResolves
  \/ \E e \in CallbackThrown : callbackRejects(e)

\* init alone
PageInit == InitDataIdle /\ InitPage /\ InitAuthIdle
SpecInit == PageInit /\ [][PageNext]_vars

AuthNext ==
  \/ onAuthStateChange
  \/ unsubscribe
  \/ userLoadedFires
  \/ \E ev \in RefetchEvents : signalFires(ev)
  \/ \E cause \in Causes, stale \in BOOLEAN : emitGetUserResolves(cause, stale)
  \/ \E cause \in Causes, e \in DataThrown : emitGetUserRejects(cause, e)
  \/ otherSubscription
  \/ SessionExpires
  \/ SessionRemoved
  \/ SessionLoaded

CtorNext ==
  \E options \in OptionInputs, hasLocalStorage \in BOOLEAN :
    constructor(options, hasLocalStorage)

\* the constructor alone, with or without a window
CtorInit ==
  /\ InitDataIdle
  /\ hasWindow \in BOOLEAN
  /\ frame = "same"
  /\ si = IdleSignIn
  /\ signIns = 0
  /\ InitPageIdle
  /\ InitAuthIdle
SpecCtor == CtorInit /\ [][CtorNext]_vars

\* no method of the client has been called
Untouched ==
  /\ \A r \in Reqs : req[r].pc = "idle"
  /\ si.pc = "idle"
  /\ ini.pc = "idle"
  /\ ~sub.called
  /\ call.pc = "idle"

SurfaceNext ==
  \/ Untouched /\ \E r \in Reqs, op \in OpKinds : request(r, op)
  \/ \E r \in Reqs : getUserResolves(r)
  \/ \E r \in Reqs, e \in DataThrown : getUserRejects(r, e)
  \/ \E r \in Reqs, isExpired \in BOOLEAN : signinSilentResolves(r, isExpired)
  \/ \E r \in Reqs : signinSilentResolvesNull(r)
  \/ \E r \in Reqs, e \in DataThrown : signinSilentRejects(r, e)
  \/ \E r \in Reqs, ok \in BOOLEAN : fetchResolves(r, ok)
  \/ \E r \in Reqs, e \in DataThrown : fetchRejects(r, e)
  \/ Untouched /\ signInRedirect
  \/ signinPopupResolves
  \/ \E e \in Thrown : signinPopupRejects(e)
  \/ signinRedirectResolves
  \/ \E e \in Thrown : signinRedirectRejects(e)
  \/ Untouched /\ init
  \/ callbackResolves
  \/ \E e \in CallbackThrown : callbackRejects(e)
  \/ Untouched /\ onAuthStateChange
  \/ unsubscribe
  \/ userLoadedFires
  \/ \E ev \in RefetchEvents : signalFires(ev)
  \/ \E cause \in Causes, stale \in BOOLEAN : emitGetUserResolves(cause, stale)
  \/ \E cause \in Causes, e \in DataThrown : emitGetUserRejects(cause, e)
  \/ Untouched /\ signOutRedirect
  \/ Untouched /\ getUser
  \/ callResolves
  \/ \E e \in Thrown : callRejects(e)

\* one method of the client, called in a page that is framed or not, a
\* popup or not, at a callback location or not, with or without a stored
\* session
SurfaceInit ==
  /\ InitData
  /\ hasWindow = TRUE
  /\ frame \in {"same", "different"}
  /\ si = IdleSignIn
  /\ signIns = 0
  /\ opener \in {"none", "other"}
  /\ hasReplaceState = TRUE
  /\ location \in {NoLocation, [search |-> SearchOf(<<2, 3>>), hash |-> <<>>]}
  /\ historyLen = 1
  /\ replaceCalls = 0
  /\ windowClosed = FALSE
  /\ ini = IdleInit
  /\ inits = 0
  /\ InitAuthIdle
SpecSurface == SurfaceInit /\ [][SurfaceNext]_vars

\* onAuthStateChange while the UserManager raises an event at every change
\* of the session
RaceNext ==
  \/ onAuthStateChange
  \/ unsubscribe
  \/ \E ev \in {"userLoaded", "userUnloaded", "accessTokenExpired"} :
       sessionChangeRaises(ev)
  \/ \E cause \in Causes, stale \in BOOLEAN : emitGetUserResolves(cause, stale)
  \/ \E cause \in Causes, e \in DataThrown : emitGetUserRejects(cause, e)

RaceInit == InitData /\ InitSignInIdle /\ InitPageIdle /\ InitAuthIdle
SpecRace == RaceInit /\ [][RaceNext]_vars

\* onAuthStateChange alone, while the UserManager changes the session
AuthInit == InitData /\ InitSignInIdle /\ InitPageIdle /\ InitAuthIdle
SpecAuth == AuthInit /\ [][AuthNext]_vars

(* ------------------------------- claims ------------------------------- *)
\* the window is a frame of another page: its top is another window, or
\* is out of reach (cross-origin)
Framed == hasWindow /\ frame \in {"different", "throws"}

\* the window was opened by another window
OpenedByAnother == hasWindow /\ opener = "other"

\* the popup failures whose message says the popup was blocked, closed or
\* could not be opened
PopupUnavailable ==
  { MkError(MsgPopupBlocked), MkError(MsgWindowClosed), MkError(MsgOpenReturnedNull) }

\* the parameters of a hash fragment: those after its "?", or the whole
\* fragment when it has no "?" but holds an "="
HashParamsOf(hash) ==
  LET h == StripHash(hash)
      k == indexOf(h, "?")
  IN IF k >= 0 THEN URLSearchParams(sliceFrom(h, k + 1))
     ELSE IF includes(h, <<"=">>) THEN URLSearchParams(h)
     ELSE <<>>

\* none of code, state, session_state, error, error_description is left
\* in the query string or in the hash fragment's parameters
NoScrubbedParamIn(loc) ==
  \A n \in ScrubbedParams :
    /\ ~has(URLSearchParams(loc.search), n)
    /\ ~has(HashParamsOf(loc.hash), n)

\* C1: in every data operation fetchFn is called only in the step in which
\* ensureUser returns, at most once, with the session ensureUser returned
\* (the stored one, or the renewed one), which is not expired, and with
\* "Authorization: Bearer <its access_token>"; an operation whose ensureUser
\* fails has called fetchFn not at all.
C1_FetchOnlyAfterEnsureUser ==
  [][\A r \in Reqs :
       /\ req'[r].fetches # req[r].fetches =>
            /\ req[r].pc \in {"getUser", "signinSilent"}
            /\ req[r].fetches = 0
            /\ req'[r].fetches = 1
            /\ req'[r].pc = "fetch"
            /\ req'[r].ensured # NoUser
            /\ req'[r].ensured \notin expiredSet'
            /\ req'[r].ensured = IF req[r].pc = "getUser" THEN user ELSE user'
            /\ req'[r].headers.Authorization
                 = <<"Bearer", AccessToken(req'[r].ensured)>>
       /\ (req[r].pc \in {"getUser", "signinSilent"} /\ req'[r].pc = "rejected")
            => req'[r].fetches = 0
    ]_vars

\* one operation has called fetchFn with the token of the session ensureUser
\* returned, another has failed in ensureUser without calling it
C1_Witness ==
  \E r, q \in Reqs :
    /\ req[r].pc = "fetch"
    /\ req[r].fetches = 1
    /\ req[r].ensured # NoUser
    /\ req[r].headers.Authorization = <<"Bearer", AccessToken(req[r].ensured)>>
    /\ req[q].pc = "rejected"
    /\ req[q].error = MkError(MsgUnauthenticated)
    /\ req[q].fetches = 0

\* C2: when getUser resolves a session that is not expired, ensureUser
\* returns that session and signinSilent is not called by the operation.
C2_ValidStoredSessionNoRenewal ==
  \A r \in Reqs :
    req[r].stored = "valid" =>
      /\ req[r].renewals = 0
      /\ req[r].renewal = "none"
      /\ req[r].pc \in {"fetch", "resolved", "rejected"}
      /\ req[r].fetches = 1
      /\ req[r].pc = "fetch" =>
           /\ req[r].got # NoUser
           /\ ~req[r].gotExpired
           /\ req[r].ensured = req[r].got
           /\ req[r].renewed = NoUser

\* ensureUser has returned the stored session, while another session has
\* already been issued
C2_Witness ==
  \E r \in Reqs :
    /\ req[r].pc = "fetch"
    /\ req[r].stored = "valid"
    /\ req[r].ensured = req[r].got
    /\ req[r].renewals = 0

\* C3: when getUser resolves null or an expired session, the operation
\* calls signinSilent exactly once; a renewed session that is not expired
\* is the one ensureUser returns; a renewal that throws, resolves null or
\* resolves an expired session makes the operation fail with the
\* "User is not authenticated" error, whatever the renewal threw.
C3_OneRenewalThenUnauthenticated ==
  \A r \in Reqs :
    /\ req[r].renewals <= 1
    /\ req[r].stored = "invalid" => req[r].renewals = 1 /\ req[r].renewal # "none"
    /\ req[r].renewal = "pending" <=> req[r].pc = "signinSilent"
    /\ req[r].renewal = "valid" =>
         /\ req[r].pc \in {"fetch", "resolved", "rejected"}
         /\ req[r].fetches = 1
         /\ req[r].pc = "fetch" =>
              /\ req[r].renewed # NoUser
              /\ req[r].ensured = req[r].renewed
              /\ ~req[r].ensuredExpired
    /\ req[r].renewal \in {"invalid", "threw"} =>
         /\ req[r].pc = "rejected"
         /\ req[r].error = MkError(MsgUnauthenticated)
         /\ req[r].error \notin DataThrown
         /\ req[r].fetches = 0

\* one operation's renewal threw and it failed as unauthenticated, while
\* another's renewal gave the session it now sends
C3_Witness ==
  \E r, q \in Reqs :
    /\ req[r].renewal = "threw"
    /\ req[r].pc = "rejected"
    /\ req[r].error = MkError(MsgUnauthenticated)
    /\ req[q].renewal = "valid"
    /\ req[q].pc = "fetch"
    /\ req[q].ensured = req[q].renewed

\* C4: in a window that is not framed, signInRedirect makes exactly one
\* UserManager call, signinRedirect with redirectTarget "self", and no
\* signinPopup call.
C4_UnframedRedirectsSelf ==
  (~Framed /\ si.pc # "idle") =>
    /\ si.calls = <<RedirectCall("self")>>
    /\ si.popup = "none"

C4_Witness ==
  /\ hasWindow
  /\ ~Framed
  /\ si.pc = "resolved"
  /\ si.calls = <<RedirectCall("self")>>

\* C5: in a framed window signInRedirect calls signinPopup first, and when
\* signinPopup succeeds signInRedirect resolves without any signinRedirect
\* call.
C5_FramedPopupFirst ==
  (Framed /\ si.pc # "idle") =>
    /\ Len(si.calls) >= 1
    /\ si.calls[1] = PopupCall
    /\ si.popup # "none"
    /\ si.popup = "fulfilled" =>
         /\ si.pc = "resolved"
         /\ si.calls = <<PopupCall>>
         /\ si.redirect = "none"

C5_Witness ==
  /\ Framed
  /\ frame = "throws"
  /\ si.popup = "fulfilled"
  /\ si.pc = "resolved"
  /\ si.calls = <<PopupCall>>

\* C6: in a framed window, when signinPopup fails with an Error whose
\* message says the popup was blocked, closed or could not be opened,
\* exactly one signinRedirect call follows, with redirectTarget "top"; and
\* a signinRedirect call is made only once signinPopup has failed.
C6_PopupBlockedFallsBackToTop ==
  Framed =>
    /\ (si.popup = "rejected" /\ si.popupError \in PopupUnavailable) =>
         /\ si.calls = <<PopupCall, RedirectCall("top")>>
         /\ si.redirect # "none"
    /\ (\E i \in 1..Len(si.calls) : si.calls[i].fn = "signinRedirect") =>
         /\ si.popup = "rejected"
         /\ si.calls[1] = PopupCall
         /\ Len(si.calls) = 2

C6_Witness ==
  /\ Framed
  /\ si.popup = "rejected"
  /\ si.popupError = MkError(MsgPopupBlocked)
  /\ si.calls = <<PopupCall, RedirectCall("top")>>
  /\ si.pc = "signinRedirect"

\* C7: in a framed window, when signinPopup fails with anything else (a
\* thrown value that is no Error included), signInRedirect rejects with
\* that very value and makes no signinRedirect call.
C7_OtherPopupFailurePropagates ==
  (Framed /\ si.popup = "rejected" /\ si.popupError \notin PopupUnavailable) =>
    /\ si.pc = "rejected"
    /\ si.error = si.popupError
    /\ si.calls = <<PopupCall>>
    /\ si.redirect = "none"

C7_Witness ==
  /\ Framed
  /\ si.pc = "rejected"
  /\ si.popupError = MkNonError(TextPopup)
  /\ si.error = MkNonError(TextPopup)
  /\ si.calls = <<PopupCall>>

\* C8: when signinRedirect fails, signInRedirect rejects with the
\* "Embedded login blocked" error exactly when the window is framed and
\* with the "Sign-in redirect failed." error exactly when it is not, never
\* with what signinRedirect threw.
C8_RedirectFailureByFraming ==
  si.redirect = "rejected" =>
    /\ si.pc = "rejected"
    /\ si.error = MkError(MsgEmbeddedLoginBlocked) <=> Framed
    /\ si.error = MkError(MsgRedirectFailed) <=> ~Framed
    /\ si.error # si.redirectError

C8_Witness ==
  /\ Framed
  /\ si.popupError = MkError(MsgWindowClosed)
  /\ si.redirect = "rejected"
  /\ si.error = MkError(MsgEmbeddedLoginBlocked)

\* C9: init in a window that was not opened by another window, on a
\* location without callback parameters, resolves at once: no callback
\* exchange is started, the location and the history are as they were and
\* the window is not closed.
C9_InitNoOp ==
  (ini.pc # "idle" /\ ~OpenedByAnother /\ ~isRedirectCallback(hasWindow, ini.before)) =>
    /\ ini.pc = "resolved"
    /\ ini.exchanges = <<>>
    /\ ini.exchange = "none"
    /\ location = ini.before
    /\ replaceCalls = ini.replaceCallsBefore
    /\ historyLen = 1
    /\ ~windowClosed

\* a window whose opener is itself, on a location with a query and a hash
\* but no callback parameter
C9_Witness ==
  /\ hasWindow
  /\ opener = "self"
  /\ ini.pc = "resolved"
  /\ ini.exchanges = <<>>
  /\ location.search # <<>>
  /\ location.hash # <<>>
  /\ location = ini.before

\* init runs exactly one callback exchange when the location carries
\* callback parameters or the window was opened by another: the popup
\* callback in the latter case, the generic one otherwise
OneExchange ==
  (ini.pc # "idle" /\ (OpenedByAnother \/ isRedirectCallback(hasWindow, ini.before))) =>
    /\ Len(ini.exchanges) = 1
    /\ ini.exchanges[1] =
         IF OpenedByAnother THEN "signinPopupCallback" ELSE "signinCallback"

\* a successful exchange in a popup without callback parameters leaves the
\* location untouched
PopupWithoutParamsUntouched ==
  (ini.pc = "resolved" /\ ini.exchange = "fulfilled"
     /\ ~isRedirectCallback(hasWindow, ini.before)) =>
    /\ location = ini.before
    /\ replaceCalls = ini.replaceCallsBefore

\* C10 as stated: one exchange; after a successful exchange with callback
\* parameters present the auth parameters are gone from the location when
\* init has resolved; after one in a popup without them the location is
\* untouched.
C10_Original ==
  /\ OneExchange
  /\ PopupWithoutParamsUntouched
  /\ (ini.pc = "resolved" /\ ini.exchange = "fulfilled"
        /\ isRedirectCallback(hasWindow, ini.before)) =>
       NoScrubbedParamIn(location)

\* C10 (amended): as above, with the scrub depending on
\* history.replaceState: where it exists the parameters code, state,
\* session_state, error and error_description are gone from the location
\* when init has resolved, where it does not the location is as it was.
C10_ExchangeThenScrub ==
  /\ OneExchange
  /\ PopupWithoutParamsUntouched
  /\ (ini.pc = "resolved" /\ ini.exchange = "fulfilled"
        /\ isRedirectCallback(hasWindow, ini.before)) =>
       IF hasReplaceState
         THEN /\ NoScrubbedParamIn(location)
              /\ replaceCalls = ini.replaceCallsBefore + 1
         ELSE /\ location = ini.before
              /\ replaceCalls = ini.replaceCallsBefore

\* a callback in the hash of a routed page, scrubbed when init has resolved
C10_Witness ==
  /\ ini.pc = "resolved"
  /\ ini.exchange = "fulfilled"
  /\ ini.exchanges = <<"signinCallback">>
  /\ hasReplaceState
  /\ ini.before.search = <<>>
  /\ ini.before.hash = HashOf(<<2, 3>>, TRUE)
  /\ location.search = <<>>
  /\ location.hash = <<"#">> \o Route
  /\ NoScrubbedParamIn(location)

\* the exchange failures whose message says the callback state was lost
LostCallbackState ==
  { MkError(MsgNoState), MkError(MsgStateNotFound),
    MkError(NeedleInvalidResponseType) }

\* C11: when the callback exchange inside init has failed: in a window
\* opened by another window, with a failure whose message says the callback
\* state was lost, the window has been closed and init has resolved without
\* error; in every other case init has rejected with that same failure and
\* the window has not been closed.
C11_ExchangeFailure ==
  ini.exchange = "rejected" =>
    IF OpenedByAnother /\ ini.thrown \in LostCallbackState
      THEN /\ windowClosed
           /\ ini.pc = "resolved"
           /\ ini.error = NoError
      ELSE /\ ~windowClosed
           /\ ini.pc = "rejected"
           /\ ini.error = ini.thrown

\* a popup whose exchange failed with "State not found in storage": closed
C11_Witness ==
  /\ OpenedByAnother
  /\ ini.exchange = "rejected"
  /\ ini.thrown = MkError(MsgStateNotFound)
  /\ ini.pc = "resolved"
  /\ windowClosed

\* the parameters whose presence makes a location a callback
DetectionSet == {K_code, K_state, K_error, K_id_token}

\* one of the detection parameters is among `params`
AuthParamIn(params) ==
  \E i \in 1..Len(params) : params[i][1] \in DetectionSet

\* the parameters read from a hash fragment: those after its "?"; with no
\* "?", the whole fragment when its text holds "code=" or "state="
FragmentParams(hash) ==
  LET h == StripHash(hash)
      k == indexOf(h, "?")
  IN IF k >= 0 THEN URLSearchParams(sliceFrom(h, k + 1))
     ELSE IF includes(h, NeedleCodeEq) \/ includes(h, NeedleStateEq)
       THEN URLSearchParams(h)
     ELSE <<>>

\* the claim's four cases: a callback in the query, in the hash of a
\* routed page, in a bare hash, and a location without auth parameters
C12_Cases ==
  /\ ini.before = [search |-> SearchOf(<<2, 3>>), hash |-> <<>>]
       => ini.hasCallbackParams
  /\ ini.before = [search |-> <<>>, hash |-> HashOf(<<2>>, TRUE)]
       => ini.hasCallbackParams
  /\ ini.before = [search |-> <<>>, hash |-> HashOf(<<2, 3>>, FALSE)]
       => ini.hasCallbackParams
  /\ ini.before \in { NoLocation,
                      [search |-> SearchOf(<<1>>), hash |-> HashOf(<<8>>, TRUE)] }
       => ~ini.hasCallbackParams

\* C12 as stated: isRedirectCallback is true exactly when the query string,
\* or with no parameters there the hash fragment, contains one of code,
\* state, error, id_token.
C12_Original ==
  (hasWindow /\ ini.pc # "idle") =>
    /\ ini.hasCallbackParams <=>
         LET q == URLSearchParams(ini.before.search)
         IN IF Len(q) > 0 THEN AuthParamIn(q)
            ELSE AuthParamIn(HashParamsOf(ini.before.hash))
    /\ C12_Cases

\* C12 (amended): isRedirectCallback is true exactly when the query string,
\* if it has any parameter, contains one of code, state, error, id_token,
\* or, with no parameter in the query, the parameters read from the hash
\* fragment do: those after the fragment's "?", or with no "?" the whole
\* fragment provided its text holds "code=" or "state=".
C12_IsRedirectCallback ==
  (hasWindow /\ ini.pc # "idle") =>
    /\ ini.hasCallbackParams <=>
         LET q == URLSearchParams(ini.before.search)
         IN IF Len(q) > 0 THEN AuthParamIn(q)
            ELSE AuthParamIn(FragmentParams(ini.before.hash))
    /\ C12_Cases

\* init has found the callback in the hash of a routed page: "#/r?code=a"
C12_Witness ==
  /\ hasWindow
  /\ ini.pc # "idle"
  /\ ini.before = [search |-> <<>>, hash |-> HashOf(<<2>>, TRUE)]
  /\ ini.hasCallbackParams

\* the parameters of a list that are none of the scrubbed ones, in order
OtherParams(params) ==
  LET IsOther(pr) == pr[1] \notin ScrubbedParams
  IN SelectSeq(params, IsOther)

\* the route of a hash fragment: what stands before its "?", or the whole
\* fragment when it has neither "?" nor "="
RouteOf(hash) ==
  LET h == StripHash(hash)
      k == indexOf(h, "?")
  IN IF k >= 0 THEN sliceTo(h, k)
     ELSE IF includes(h, <<"=">>) THEN <<>>
     ELSE h

\* init has called clearAuthParamsFromUrl and resolved
ScrubCalled ==
  /\ hasWindow
  /\ ini.pc = "resolved"
  /\ ini.exchange = "fulfilled"
  /\ ini.hasCallbackParams

\* nothing scrubbed is left, everything else is where it was with the
\* value it had, in the query and in the hash (route, then parameters)
ScrubbedAndPreserved ==
  /\ NoScrubbedParamIn(location)
  /\ URLSearchParams(location.search) = OtherParams(URLSearchParams(ini.before.search))
  /\ RouteOf(location.hash) = RouteOf(ini.before.hash)
  /\ HashParamsOf(location.hash) = OtherParams(HashParamsOf(ini.before.hash))
  /\ location.hash \in
       { <<>>,
         <<"#">> \o RouteOf(ini.before.hash),
         <<"#">> \o RouteOf(ini.before.hash) \o <<"?">>
                \o paramsToString(HashParamsOf(location.hash)),
         <<"#">> \o paramsToString(HashParamsOf(location.hash)) }

\* C13 as stated: after clearAuthParamsFromUrl none of code, state,
\* session_state, error, error_description is left in the query or in the
\* hash parameters, and every other query parameter, the hash route and
\* every other hash parameter is still there with the same value.
C13_Original ==
  ScrubCalled => ScrubbedAndPreserved

\* C13 (amended): the same where window.history.replaceState exists; where
\* it does not, clearAuthParamsFromUrl leaves the location as it was.
C13_ScrubRemovesAndPreserves ==
  ScrubCalled =>
    IF hasReplaceState THEN ScrubbedAndPreserved ELSE location = ini.before

\* "?tab=settings&code=a" scrubbed to "?tab=settings"
C13_Witness ==
  /\ ScrubCalled
  /\ hasReplaceState
  /\ ini.before = [search |-> SearchOf(<<1, 2>>), hash |-> <<"#">> \o Route]
  /\ location = [search |-> SearchOf(<<1>>), hash |-> <<"#">> \o Route]

\* the initial replay's session read is over
InitialReadOver == sub.called /\ sub.initial # "pending"

\* the state an emission was given: its user when there is one that is not
\* expired, and whether there is
StateOfGiven(em) ==
  [user |-> IF em.given # NoUser /\ ~em.givenExpired THEN em.given ELSE NoUser,
   isAuthenticated |-> em.given # NoUser /\ ~em.givenExpired]

C15_NoEmissionAfterUnsubscribe ==
  [][sub.unsubCalls >= 1 =>
       /\ sub'.emitted = sub.emitted
       /\ sub'.last = sub.last]_vars

\* the initial replay was in flight when unsubscribe was called, its read
\* resolved afterwards and the listener was not invoked
C15_Witness ==
  /\ sub.unsubCalls >= 1
  /\ sub.initial = "suppressed"
  /\ sub.emitted = 0

\* none of the five handlers of the subscription is registered
NoOwnHandler == \A ev \in Events : "own" \notin handlers[ev]

\* C16: one unsubscribe call deregisters all five handlers of the
\* subscription (and no other subscription's); a further call leaves the
\* registrations and the subscription as they were.
C16_UnsubscribeIdempotent ==
  /\ [](sub.unsubCalls >= 1 => (NoOwnHandler /\ ~sub.isSubscribed))
  /\ [][sub'.unsubCalls > sub.unsubCalls =>
          /\ \A ev \in Events : handlers'[ev] = handlers[ev] \ {"own"}
          /\ sub.unsubCalls >= 1 =>
               /\ handlers' = handlers
               /\ sub' = [sub EXCEPT !.unsubCalls = @ + 1]]_vars

\* unsubscribe called twice while another subscription stays registered
C16_Witness ==
  /\ sub.unsubCalls = 2
  /\ NoOwnHandler
  /\ \A ev \in Events : handlers[ev] = {"other"}

\* C17: in every emission the trigger is "authenticated" exactly when
\* state.isAuthenticated, exactly when state.user is a session, which is
\* then the one given and not expired; whatever caused the emission.
C17_TriggerMatchesState ==
  sub.emitted > 0 =>
    /\ sub.last.trigger \in {"authenticated", "unauthenticated"}
    /\ sub.last.trigger = "authenticated" <=> sub.last.state.isAuthenticated
    /\ sub.last.state.isAuthenticated <=> sub.last.state.user # NoUser
    /\ sub.last.state.user # NoUser <=>
         (sub.last.given # NoUser /\ ~sub.last.givenExpired)
    /\ sub.last.state.user # NoUser => sub.last.state.user = sub.last.given

\* userLoaded raised with an expired session: emitted as unauthenticated
C17_Witness ==
  /\ sub.emitted > 0
  /\ sub.last.cause = "userLoaded"
  /\ sub.last.given # NoUser
  /\ sub.last.givenExpired
  /\ sub.last.state.user = NoUser
  /\ sub.last.trigger = "unauthenticated"

\* the storage the client was constructed with
ClientStorage ==
  IF ctor.options.storage.given THEN ctor.options.storage.value ELSE "localStorage"

\* C18: when explicit auth settings are supplied, the resolved settings are
\* those settings with userStore and stateStore replaced by stores bound to
\* the client's storage, and nothing else: no default derived from the
\* publishable key and no authOverrides entry is in them.
C18_ExplicitAuthOnly ==
  (ctor.pc = "constructed" /\ ctor.options.auth.given) =>
    /\ ctor.path = "explicit"
    /\ DOMAIN ctor.settings =
         DOMAIN ctor.options.auth.value \cup {"userStore", "stateStore"}
    /\ \A f \in DOMAIN ctor.settings :
         IF f \in {"userStore", "stateStore"}
           THEN ctor.settings[f] =
                  SettingValue("WebStorageStateStore", <<>>, <<>>, ClientStorage)
           ELSE ctor.settings[f] = ctor.options.auth.value[f]

\* explicit auth (with a userStore of its own) together with a valid key and
\* overrides of authority and stateStore
C18_Witness ==
  /\ ctor.pc = "constructed"
  /\ ctor.options.auth.given
  /\ "userStore" \in DOMAIN ctor.options.auth.value
  /\ ctor.decoded.ok
  /\ ctor.options.authOverrides.given
  /\ "authority" \in DOMAIN ctor.options.authOverrides.value
  /\ ctor.settings["authority"] = ctor.options.auth.value["authority"]
  /\ ctor.settings["userStore"].kind = "WebStorageStateStore"

\* decodePublishableKey was called: the trimmed key is not empty
DecodeCalled == ctor.pc # "idle" /\ ctor.publishableKey # <<>>

\* 'sh_publishable_' + base64("X::env")
WellFormedKey(x, e) == PUBLISHABLE_PREFIX \o btoa(x \o <<Colon, Colon>> \o e)

\* the text holds "::"
HasDelimiter(text) ==
  \E i \in 1..(Len(text) - 1) : text[i] = Colon /\ text[i + 1] = Colon

\* decoding a key without the prefix fails with the invalid-key error
UnprefixedKeyRejected ==
  (DecodeCalled /\ \E i \in 1..Len(PUBLISHABLE_PREFIX) :
                     \/ i > Len(ctor.publishableKey)
                     \/ ctor.publishableKey[i] # PUBLISHABLE_PREFIX[i]) =>
    /\ ~ctor.decoded.ok
    /\ ctor.decoded.error = "publishableKey is invalid or missing required prefix."
    /\ ctor.pc = "threw"
    /\ ctor.error = ctor.decoded.error

\* C19 as stated: a key 'sh_publishable_' + base64("X::env") with X not
\* empty decodes to {encryptedKey: X, environment: env}; a key without the
\* prefix fails with the invalid-key error.
C19_Original ==
  /\ DecodeCalled =>
       \A x \in Texts(MaxText), e \in Texts(MaxText) :
         (x # <<>> /\ ctor.publishableKey = WellFormedKey(x, e)) =>
           /\ ctor.decoded.ok
           /\ ctor.decoded.encryptedKey = x
           /\ ctor.decoded.environment = e
  /\ UnprefixedKeyRejected

\* C19 (amended): the same for X and env both not empty, neither holding
\* "::" and X not ending in ":".
C19_DecodePublishableKey ==
  /\ DecodeCalled =>
       \A x \in Texts(MaxText), e \in Texts(MaxText) :
         (/\ x # <<>> /\ e # <<>>
          /\ ~HasDelimiter(x) /\ ~HasDelimiter(e)
          /\ x[Len(x)] # Colon
          /\ ctor.publishableKey = WellFormedKey(x, e)) =>
           /\ ctor.decoded.ok
           /\ ctor.decoded.encryptedKey = x
           /\ ctor.decoded.environment = e
  /\ UnprefixedKeyRejected

\* base64("k::k") under the prefix, decoded to k and k
C19_Witness ==
  /\ DecodeCalled
  /\ ctor.publishableKey = WellFormedKey(<<107>>, <<107>>)
  /\ ctor.decoded.ok
  /\ ctor.decoded.encryptedKey = <<107>>
  /\ ctor.decoded.environment = <<107>>

\* an operation of the client has settled
Settled(pc) == pc \in {"resolved", "rejected"}

\* a failed session read or fetch inside request rejects request
DataFailureSurfaces ==
  \A r \in Reqs :
    (req[r].stored = "threw" \/ req[r].fetched = "threw")
      => req[r].pc = "rejected" /\ req[r].error \in DataThrown

\* a failed redirect rejects signInRedirect
RedirectFailureSurfaces ==
  si.redirect = "rejected" => si.pc = "rejected" /\ si.error # NoError

\* a failed exchange rejects init with the same value, the popup whose
\* callback state was lost excepted
ExchangeFailureSurfaces ==
  (ini.exchange = "rejected"
     /\ ~(ini.isPopupWindow /\ ini.thrown \in LostCallbackState))
    => ini.pc = "rejected" /\ ini.error = ini.thrown

\* a failed signoutRedirect or getUser rejects the method with the same value
CallFailureSurfaces ==
  call.thrown # NoError => call.pc = "rejected" /\ call.error = call.thrown

TopOutOfReach == hasWindow /\ frame = "throws"

\* C21: when comparing the window's self and top references throws,
\* isInIframe reports framed: signInRedirect calls signinPopup first, and
\* every signinRedirect call it makes has redirectTarget "top", never "self".
C21_ThrowMeansFramed ==
  TopOutOfReach =>
    /\ isInIframe(hasWindow, frame)
    /\ si.pc # "idle" =>
         /\ Len(si.calls) >= 1
         /\ si.calls[1] = PopupCall
         /\ \A i \in 1..Len(si.calls) :
              si.calls[i].fn = "signinRedirect" => si.calls[i] = RedirectCall("top")

\* the top is out of reach, the popup was blocked and the redirect was issued
C21_Witness ==
  /\ TopOutOfReach
  /\ si.popup = "rejected"
  /\ si.popupError \in PopupUnavailable
  /\ si.calls = <<PopupCall, RedirectCall("top")>>

\* the emitCurrentState calls of the subscription whose getUser is pending
InFlight(rec) ==
  rec.pending["initial"] + rec.pending["userUnloaded"]
    + rec.pending["userSignedOut"] + rec.pending["accessTokenExpired"]
    + rec.pending["silentRenewError"]

\* a lifecycle signal reaches a handler of the subscription in this step
SignalDelivered == sub'.signals = sub.signals + 1

\* C22: a signal delivered to the subscription either invokes the listener
\* once, at once, with the session the signal carries and starts no session
\* read (userLoaded), or starts exactly one session read and invokes
\* nothing (the other four); the listener is otherwise invoked only when
\* one session read completes, once at most; session reads are started only
\* by a signal or by the subscription itself. So there are never more
\* invocations than signals, the initial replay apart.
C22_OneEmissionPerSignal ==
  /\ [](sub.emitted <= sub.initialEmitted + sub.signals)
  /\ [][/\ SignalDelivered =>
             \/ /\ sub'.emitted = sub.emitted + 1
                /\ InFlight(sub') = InFlight(sub)
                /\ sub'.last.cause = "userLoaded"
                /\ sub'.last.given = user
             \/ /\ sub'.emitted = sub.emitted
                /\ InFlight(sub') = InFlight(sub) + 1
                /\ sub'.last = sub.last
        /\ (sub'.emitted # sub.emitted /\ ~SignalDelivered) =>
             /\ sub'.emitted = sub.emitted + 1
             /\ InFlight(sub') = InFlight(sub) - 1
        /\ InFlight(sub') > InFlight(sub) =>
             /\ InFlight(sub') = InFlight(sub) + 1
             /\ SignalDelivered \/ ~sub.called
       ]_vars

\* the listener has been invoked for the initial replay and then for the
\* re-fetch that one signal started
C22_Witness ==
  /\ sub.isSubscribed
  /\ sub.signals = 1
  /\ sub.initialEmitted = 1
  /\ sub.emitted = 2
  /\ sub.last.cause \in RefetchEvents
  /\ InFlight(sub) = 0

\* C23: the call of onAuthStateChange registers the five handlers, then
\* starts the session read of the initial replay, and returns without having
\* invoked the listener; the listener is invoked for the initial replay only
\* in a later step, when that read has completed.
C23_InitialReplayAsynchronous ==
  /\ [](sub.called => sub.atRead = Events)
  /\ [][(~sub.called /\ sub'.called) =>
          /\ sub'.emitted = 0
          /\ sub'.initial = "pending"
          /\ InFlight(sub') = 1
          /\ \A ev \in Events : "own" \in handlers'[ev]]_vars
  /\ [][sub'.initialEmitted > sub.initialEmitted =>
          /\ sub.called
          /\ sub.initial = "pending"
          /\ sub'.pending["initial"] = sub.pending["initial"] - 1]_vars

\* the initial replay has invoked the listener, after the call returned
C23_Witness ==
  /\ sub.called
  /\ sub.atRead = Events
  /\ sub.initial = "emitted"
  /\ sub.last.cause = "initial"
  /\ sub.emitted = 1

\* the step in which a successful exchange is followed by the scrub
ScrubStep ==
  /\ ini.pc = "callback"
  /\ ini.hasCallbackParams
  /\ ini'.exchange = "fulfilled"

\* C24: no step changes the length of the browser history; the scrub calls
\* history.replaceState once, and when replaceState is missing it leaves the
\* location and the history as they were.
C24_HistoryLengthKept ==
  /\ [][historyLen' = historyLen]_vars
  /\ [][ScrubStep =>
          IF hasWindow /\ hasReplaceState
            THEN replaceCalls' = replaceCalls + 1
            ELSE /\ replaceCalls' = replaceCalls
                 /\ location' = location]_vars

\* the scrub has replaced the location, and the history has its length
C24_Witness ==
  /\ ini.pc = "resolved"
  /\ ini.exchange = "fulfilled"
  /\ ini.hasCallbackParams
  /\ replaceCalls = ini.replaceCallsBefore + 1
  /\ location # ini.before
  /\ historyLen = 1

\* the data requests that have been issued, and those that called signinSilent
Issued == {r \in Reqs : req[r].pc # "idle"}
Renewing == {r \in Reqs : req[r].renewals >= 1}

\* C25: however the requests interleave, each one reads the session itself
\* and calls signinSilent at most once, exactly when its own read found no
\* valid session (nothing is shared between requests), so there are at most
\* as many signinSilent calls as requests; and a request calls fetchFn once,
\* with the token of the session its own read or its own renewal returned.
C25_IndependentRequests ==
  /\ \A r \in Reqs :
       /\ req[r].renewals <= 1
       /\ req[r].renewals = 1 <=> req[r].stored = "invalid"
       /\ req[r].renewals = 1 <=> req[r].renewal # "none"
       /\ req[r].fetches <= 1
       /\ req[r].fetches = 1 <=>
            (req[r].stored = "valid" \/ req[r].renewal = "valid")
       /\ req[r].pc = "fetch" =>
            /\ req[r].headers.Authorization = <<"Bearer", AccessToken(req[r].ensured)>>
            /\ req[r].ensured # NoUser
            /\ req[r].ensured =
                 IF req[r].stored = "valid" THEN req[r].got ELSE req[r].renewed
  /\ Renewing \subseteq Issued
  /\ Cardinality(Renewing) <= Cardinality(Issued)

\* two requests found no valid session, each renewed, and each sends its
\* fetch with the token of its own renewal
C25_Witness ==
  /\ req[1].pc = "fetch"
  /\ req[2].pc = "fetch"
  /\ req[1].stored = "invalid"
  /\ req[2].stored = "invalid"
  /\ req[1].renewals = 1
  /\ req[2].renewals = 1
  /\ req[1].ensured # req[2].ensured
  /\ req[1].headers.Authorization # req[2].headers.Authorization

\* C26: once the callback exchange of an init call has failed, whether init
\* rejected or closed the popup, the location is the one init was called
\* on, history.replaceState has not been called and the history has its
\* length; a callback that init detected is still detected on the location,
\* and an init call made then starts the callback exchange again.
C26_FailureLeavesLocation ==
  /\ [](ini.exchange = "rejected" =>
          /\ location = ini.before
          /\ replaceCalls = ini.replaceCallsBefore
          /\ historyLen = 1
          /\ ini.hasCallbackParams => isRedirectCallback(hasWindow, location))
  /\ [][(ini.exchange = "rejected" /\ ini.hasCallbackParams /\ inits' = inits + 1) =>
          /\ ini'.hasCallbackParams
          /\ ini'.pc = "callback"
          /\ ini'.before = ini.before]_vars

\* the exchange failed on a callback location, and init was called again
\* on the same location: the exchange is pending again
C26_Witness ==
  /\ inits = 2
  /\ ini.pc = "callback"
  /\ ini.hasCallbackParams
  /\ ini.exchange = "pending"
  /\ location = ini.before
  /\ replaceCalls = 0
  /\ user = NoUser

\* init has resolved after a successful exchange on a location where it
\* detected a callback, and the scrub has replaced the location
ExchangedAndScrubbed ==
  /\ ini.pc = "resolved"
  /\ ini.exchange = "fulfilled"
  /\ ini.hasCallbackParams
  /\ hasReplaceState
  /\ replaceCalls = ini.replaceCallsBefore + 1

\* C27: once init has completed a successful exchange and scrubbed the
\* location, isRedirectCallback is false on the location, and an init call
\* made then in a window that is not a popup returns without starting a
\* callback exchange.
C27_DetectionAndScrubAgree ==
  /\ [](ExchangedAndScrubbed => ~isRedirectCallback(hasWindow, location))
  /\ [][(ExchangedAndScrubbed /\ ~isPopupContext(hasWindow, opener)
           /\ inits' = inits + 1) =>
          /\ ini'.pc = "resolved"
          /\ ini'.exchanges = <<>>]_vars

\* the location held id_token in its query: the first init exchanged and
\* scrubbed, id_token is still there, and the second init has started
\* another callback exchange
C27_Witness ==
  /\ inits = 2
  /\ ~isPopupContext(hasWindow, opener)
  /\ replaceCalls = 1
  /\ user # NoUser
  /\ ini.pc = "callback"
  /\ ini.exchanges = <<"signinCallback">>
  /\ has(URLSearchParams(location.search), K_id_token)

\* every re-fetch has completed and the listener is still subscribed
Quiescent ==
  /\ sub.called
  /\ sub.isSubscribed
  /\ sub.emitted > 0
  /\ InFlight(sub) = 0

\* C28: every change of the session being signalled, once no re-fetch is in
\* flight the state the listener was last given is the state of the stored
\* session.
C28_LastEmissionCurrent ==
  Quiescent => sub.last.state = toAuthState(user, expiredSet)

\* the listener was given the state of the sign-in that userLoaded carried
\* and then, last, the state the initial replay had read before it:
\* unauthenticated, while the session is stored and every read succeeded
C28_Witness ==
  /\ Quiescent
  /\ sub.dropped = 0
  /\ sub.signals = 1
  /\ sub.emitted = 2
  /\ sub.last.cause = "initial"
  /\ ~sub.last.state.isAuthenticated
  /\ toAuthState(user, expiredSet).isAuthenticated

\* the constructor was given explicit auth settings, an apiBaseUrl and a
\* storage
ExplicitAndComplete ==
  /\ ctor.pc # "idle"
  /\ ctor.options.auth.given
  /\ ctor.options.apiBaseUrl.given
  /\ ctor.options.storage.given

\* C29: given explicit auth settings, an apiBaseUrl and a storage, the
\* constructor succeeds, on the explicit path, whatever publishableKey is.
C29_ExplicitAuthWins ==
  ExplicitAndComplete => ctor.pc = "constructed" /\ ctor.path = "explicit"

\* explicit auth settings, an apiBaseUrl, a storage and a publishable key
\* that cannot be decoded: the constructor threw what decodePublishableKey
\* threw
C29_Witness ==
  /\ ExplicitAndComplete
  /\ ctor.options.publishableKey.given
  /\ ~ctor.decoded.ok
  /\ ctor.pc = "threw"
  /\ ctor.error = ctor.decoded.error

====
